---- MODULE Spec2Model ----
(***************************************************************************)
(* OncoVisionX ml_core: the data-partitioning and training-orchestration   *)
(* engine (DataMerger, StratifiedDataSplitter, SkinLesionDataset and the   *)
(* DataLoaders, MetricsCalculator, EarlyStopping, Trainer).                *)
(*                                                                         *)
(* Scalars.  Monitored metric values (balanced accuracy) live on an        *)
(* integer grid whose step is half of EarlyStopping's default min_delta    *)
(* (0.001), so a grid value v stands for v * 0.0005.  Split ratios are     *)
(* integers in millionths (700000 stands for 0.70); products and ceilings  *)
(* are exact, which agrees with the float computation for every ratio and  *)
(* registry size used here.                                                *)
(*                                                                         *)
(* Library calls (sklearn train_test_split, pandas idxmax / isin / concat, *)
(* torch ReduceLROnPlateau) are modelled by their documented behaviour at  *)
(* the call site that uses them; a seeded shuffle is a choice among all    *)
(* the outcomes the shuffle can produce.                                   *)
(***************************************************************************)
EXTENDS Integers, Sequences, FiniteSets, TLC

\* ------------------------------------------------------------------ bounds
MaxValue == 3
MaxPatience == 3
MaxEpochs == 4
MaxReductions == 2

\* EarlyStopping.__init__ default min_delta = 0.001, in grid steps of 0.0005.
DefaultMinDelta == 2

\* Python's None (and an absent file): the empty option; Some(v) holds v.
None == <<>>
Some(v) == <<v>>

Values == 0..MaxValue
Patiences == 0..MaxPatience
MinDeltas == {0, 1, DefaultMinDelta}
Modes == {"max", "min"}
MaxCalls == MaxPatience + 2

\* DataMerger inputs: registries of at most MaxRows rows over MaxRows ids
MaxRows == 2
ImageIds == 1..MaxRows

\* StratifiedDataSplitter inputs: registries of at most MaxRegistry rows
MaxRegistry == 6

VARIABLES
    \* StratifiedDataSplitter: the ratios, the metadata file, the output
    \* directory, the returned partitions, the error raised, the warnings
    ratios, metadata_csv, output_dir, sp_pc, train_df, val_df, test_df,
    sp_error, sp_warnings,
    \* its random_state, the draws made so far by seeded shuffles, and the
    \* outcome of a second run of split_data on the same registry
    random_state, rng_draws, rerun,
    \* DataMerger: the two metadata files, the saved master file, the outcome
    ham_csv, isic_csv, master_csv, mg_pc, mg_result, mg_error,
    \* a stand-alone EarlyStopping object and the trace of its calls
    stopper, es_values, es_returns,
    \* Trainer
    pc, epoch, num_epochs, model_state, lr_level, scheduler, early_stopping,
    best_val_balanced_acc, history, metrics, latest_ckpt, best_ckpt,
    is_best_log, stop_log,
    \* a second Trainer restored from a checkpoint record
    resumed,
    \* the data pipeline: train.csv (its dx column), the size of val.csv, the
    \* outcome of compute_class_weights, the DataLoaders, the Trainer's loss
    \* criterion and the epoch iteration of one DataLoader
    train_csv, val_len, dl_pc, cw_method, class_weights, cw_warnings,
    cw_error, dataloaders, criterion, loader_iter,
    \* MetricsCalculator: its class_names, the sensitivity threshold in the
    \* configuration, the classes present in all_labels and in all_preds, the
    \* outcome of compute, what the two roc_auc_score calls did, and the log
    class_names, config_threshold, all_labels, all_preds, mc_pc, snapshot,
    auc_calls, mc_error, mc_warnings,
    \* SkinLesionDataset: its rows with the image file each row points to,
    \* its transform, the items fetched for the batch being built, the
    \* logged errors, the error raised and the batch delivered
    data, transform, ds_pc, fetched, ds_log, ds_error, batch,
    \* _train_one_epoch: the position within the batch loop, the number of
    \* batches of the loader, the batch at hand, the batches whose gradients
    \* the parameters hold (and whether they are unscaled and clipped), the
    \* batches the optimizer has stepped on, and the trace of the steps
    bt_pc, use_amp, n_batches, batch_idx, grads, optimizer_steps, bt_log

spVars == <<ratios, metadata_csv, output_dir, sp_pc, train_df, val_df, test_df,
            sp_error, sp_warnings, random_state, rng_draws, rerun>>
mgVars == <<ham_csv, isic_csv, master_csv, mg_pc, mg_result, mg_error>>
esVars == <<stopper, es_values, es_returns>>
trVars == <<pc, epoch, num_epochs, model_state, lr_level, scheduler,
            early_stopping, best_val_balanced_acc, history, metrics,
            latest_ckpt, best_ckpt, is_best_log, stop_log>>
dlVars == <<train_csv, val_len, dl_pc, cw_method, class_weights, cw_warnings,
            cw_error, dataloaders, criterion, loader_iter>>
mcVars == <<class_names, config_threshold, all_labels, all_preds, mc_pc,
            snapshot, auc_calls, mc_error, mc_warnings>>
dsVars == <<data, transform, ds_pc, fetched, ds_log, ds_error, batch>>
btVars == <<bt_pc, use_amp, n_batches, batch_idx, grads, optimizer_steps,
            bt_log>>
vars == <<spVars, mgVars, esVars, trVars, resumed, dlVars, mcVars, dsVars,
          btVars>>

\* what each component leaves alone
outsideSplitter == <<mgVars, esVars, trVars, resumed, dlVars, mcVars, dsVars,
                     btVars>>
outsideMerger == <<spVars, esVars, trVars, resumed, dlVars, mcVars, dsVars,
                   btVars>>
outsideStopper == <<spVars, mgVars, trVars, resumed, dlVars, mcVars, dsVars,
                    btVars>>
outsideTrainer == <<spVars, mgVars, esVars, dlVars, mcVars, dsVars, btVars>>
outsideLoaders == <<spVars, mgVars, esVars, trVars, resumed, mcVars, dsVars,
                    btVars>>
outsideMetrics == <<spVars, mgVars, esVars, trVars, resumed, dlVars, dsVars,
                    btVars>>
outsideDataset == <<spVars, mgVars, esVars, trVars, resumed, dlVars, mcVars,
                    btVars>>
outsideBatch == <<spVars, mgVars, esVars, trVars, resumed, dlVars, mcVars,
                  dsVars>>

\* ------------------------------------------------------------ EarlyStopping

\* EarlyStopping.__init__
EarlyStoppingNew(patience, min_delta, mode) ==
    [patience |-> patience, min_delta |-> min_delta, mode |-> mode,
     counter |-> 0, best_value |-> None, should_stop |-> FALSE]

\* Mutant: a value exactly min_delta better counts as an improvement.
Improved_OrEqual(self, value) ==
    IF self.mode = "max"
    THEN value >= self.best_value[1] + self.min_delta
    ELSE value <= self.best_value[1] - self.min_delta

\* the `improved` expression of EarlyStopping.__call__
Improved(self, value) ==
    IF self.mode = "max"
    THEN value > self.best_value[1] + self.min_delta
    ELSE value < self.best_value[1] - self.min_delta

\* Mutant: the first observed value is counted as a non-improvement.
EarlyStoppingCall_FirstCounts(self, value) ==
    IF self.best_value = None
    THEN [self |-> [self EXCEPT !.best_value = Some(value), !.counter = 1],
          ret |-> FALSE]
    ELSE IF Improved(self, value)
         THEN [self |-> [self EXCEPT !.best_value = Some(value), !.counter = 0],
               ret |-> self.should_stop]
         ELSE LET c == self.counter + 1
                  stop == (c >= self.patience) \/ self.should_stop
              IN [self |-> [self EXCEPT !.counter = c, !.should_stop = stop],
                  ret |-> stop]

\* Mutant: an improvement re-arms a stopped EarlyStopping.
EarlyStoppingCall_Rearms(self, value) ==
    IF self.best_value = None
    THEN [self |-> [self EXCEPT !.best_value = Some(value)], ret |-> FALSE]
    ELSE IF Improved(self, value)
         THEN [self |-> [self EXCEPT !.best_value = Some(value), !.counter = 0,
                                     !.should_stop = FALSE],
               ret |-> FALSE]
         ELSE LET c == self.counter + 1
                  stop == (c >= self.patience) \/ self.should_stop
              IN [self |-> [self EXCEPT !.counter = c, !.should_stop = stop],
                  ret |-> stop]

\* EarlyStopping.__call__: the object after the call and the value returned
EarlyStoppingCall(self, value) ==
    IF self.best_value = None
    THEN [self |-> [self EXCEPT !.best_value = Some(value)], ret |-> FALSE]
    ELSE IF Improved(self, value)
         THEN LET s == [self EXCEPT !.best_value = Some(value), !.counter = 0]
              IN [self |-> s, ret |-> s.should_stop]
         ELSE LET c == self.counter + 1
                  s == [self EXCEPT !.counter = c,
                                    !.should_stop = IF c >= self.patience
                                                    THEN TRUE
                                                    ELSE self.should_stop]
              IN [self |-> s, ret |-> s.should_stop]

TrainerIdle ==
    /\ pc = "idle" /\ epoch = 0 /\ num_epochs = 0 /\ model_state = 0
    /\ lr_level = 0 /\ scheduler = None /\ early_stopping = None
    /\ best_val_balanced_acc = 0 /\ history = None /\ metrics = None
    /\ latest_ckpt = None /\ best_ckpt = None
    /\ is_best_log = <<>> /\ stop_log = <<>> /\ resumed = None

StopperIdle ==
    /\ stopper = None /\ es_values = <<>> /\ es_returns = <<>>

SplitterIdle ==
    /\ ratios = <<0, 0, 0>> /\ metadata_csv = None /\ output_dir = FALSE
    /\ sp_pc = "idle" /\ train_df = None /\ val_df = None /\ test_df = None
    /\ sp_error = None /\ sp_warnings = <<>>
    /\ random_state = None /\ rng_draws = {} /\ rerun = None

MergerIdle ==
    /\ ham_csv = None /\ isic_csv = None /\ master_csv = None
    /\ mg_pc = "idle" /\ mg_result = None /\ mg_error = None

LoadersIdle ==
    /\ train_csv = <<>> /\ val_len = 0 /\ dl_pc = "idle"
    /\ cw_method = None
    /\ class_weights = None /\ cw_warnings = <<>> /\ cw_error = None
    /\ dataloaders = None /\ criterion = None /\ loader_iter = None

DatasetIdle ==
    /\ data = <<>> /\ transform = None /\ ds_pc = "idle" /\ fetched = <<>>
    /\ ds_log = <<>> /\ ds_error = None /\ batch = None

BatchLoopIdle ==
    /\ bt_pc = "idle" /\ use_amp = FALSE /\ n_batches = 0 /\ batch_idx = 0
    /\ grads = None /\ optimizer_steps = <<>> /\ bt_log = <<>>

MetricsIdle ==
    /\ class_names = <<>> /\ config_threshold = 0
    /\ all_labels = {} /\ all_preds = {} /\ mc_pc = "idle"
    /\ snapshot = None /\ auc_calls = None /\ mc_error = None
    /\ mc_warnings = <<>>

\* A stand-alone EarlyStopping(patience, min_delta, mode) is constructed.
InitES ==
    /\ \E p \in Patiences, d \in MinDeltas, m \in Modes :
           stopper = EarlyStoppingNew(p, d, m)
    /\ es_values = <<>>
    /\ es_returns = <<>>
    /\ TrainerIdle
    /\ MergerIdle
    /\ SplitterIdle
    /\ LoadersIdle
    /\ MetricsIdle
    /\ DatasetIdle
    /\ BatchLoopIdle

\* One call stopper(value).
StopperCall ==
    /\ stopper # None
    /\ Len(es_values) < MaxCalls
    /\ \E value \in Values :
           LET r == EarlyStoppingCall(stopper, value)
           IN /\ stopper' = r.self
              /\ es_values' = Append(es_values, value)
              /\ es_returns' = Append(es_returns, r.ret)
    /\ UNCHANGED outsideStopper

NextES == StopperCall

SpecES == InitES /\ [][NextES]_vars

\* ---------------------------------------------------- StratifiedDataSplitter

\* 1.0 in millionths
One == 1000000

\* np.isclose(x, 1.0) with its defaults rtol=1e-05, atol=1e-08:
\* |x - 1.0| <= 1.001e-05, which on millionths is a distance of at most 10
IsCloseTolerance == 10

\* test_size=0.5 of the second split, in millionths
HalfTestSize == 500000

IsCloseToOne(x) ==
    IF x >= One THEN x - One <= IsCloseTolerance ELSE One - x <= IsCloseTolerance

\* ceil(num / den) for den > 0
CeilDiv(num, den) == IF num % den = 0 THEN num \div den ELSE (num \div den) + 1

RECURSIVE SumOver(_, _)
SumOver(f, S) ==
    IF S = {} THEN 0
    ELSE LET x == CHOOSE y \in S : TRUE IN f[x] + SumOver(f, S \ {x})

\* sklearn _approximate_mode(class_counts, n_draws, rng): the floors of the
\* proportional shares, plus one for the classes with the largest remainders
\* until n_draws are placed; the rng breaks ties, so every tie-break is possible
ApproximateMode(class_counts, n_draws) ==
    LET classes == DOMAIN class_counts
        total == SumOver(class_counts, classes)
        floored == [c \in classes |-> (class_counts[c] * n_draws) \div total]
        remainder == [c \in classes |-> (class_counts[c] * n_draws) % total]
        need_to_add == n_draws - SumOver(floored, classes)
    IN {[c \in classes |-> IF c \in added THEN floored[c] + 1 ELSE floored[c]] :
           added \in {A \in SUBSET classes :
                        /\ Cardinality(A) = need_to_add
                        /\ \A a \in A, b \in classes \ A :
                               remainder[a] >= remainder[b]}}

ClassCounts(rows, dx) ==
    [c \in {dx[r] : r \in rows} |-> Cardinality({r \in rows : dx[r] = c})]

\* n_test of sklearn _validate_shuffle_split for a float test_size
NTest(n_samples, test_size) == CeilDiv(test_size * n_samples, One)

\* the ValueError train_test_split(rows, test_size, stratify=dx) raises, or None
TrainTestSplitError(rows, dx, test_size) ==
    LET n_samples == Cardinality(rows)
        n_test == NTest(n_samples, test_size)
        n_train == n_samples - n_test
        class_counts == ClassCounts(rows, dx)
        n_classes == Cardinality(DOMAIN class_counts)
    IN IF test_size <= 0 \/ test_size >= One
       THEN Some("ValueError: test_size should be in the (0, 1) range")
       ELSE IF n_train = 0
       THEN Some("ValueError: the resulting train set will be empty")
       ELSE IF \E c \in DOMAIN class_counts : class_counts[c] < 2
       THEN Some("ValueError: the least populated class has only 1 member")
       ELSE IF n_train < n_classes
       THEN Some("ValueError: train_size should be >= the number of classes")
       ELSE IF n_test < n_classes
       THEN Some("ValueError: test_size should be >= the number of classes")
       ELSE None

\* train_test_split(rows, test_size, stratify=dx, random_state): every pair
\* (train, test) the shuffle can produce.  Per class a permutation is cut into
\* its first n_i rows (train) and the next t_i rows (test).
TrainTestSplit(rows, dx, test_size) ==
    LET n_samples == Cardinality(rows)
        n_test == NTest(n_samples, test_size)
        n_train == n_samples - n_test
        class_counts == ClassCounts(rows, dx)
        classes == DOMAIN class_counts
        InClass(S, c) == Cardinality({r \in S : dx[r] = c})
    IN UNION {
         UNION {
           UNION {
             {[train |-> T, test |-> U] :
                 U \in {V \in SUBSET (rows \ T) :
                          \A c \in classes : InClass(V, c) = t_i[c]}} :
             T \in {V \in SUBSET rows :
                      \A c \in classes : InClass(V, c) = n_i[c]}} :
           t_i \in ApproximateMode(
                      [c \in classes |-> class_counts[c] - n_i[c]], n_test)} :
         n_i \in ApproximateMode(class_counts, n_train)}

\* random_state values: the default and one other seed
Seeds == {42, 7}

\* Mutant: no random_state reaches train_test_split.
RandomStateArg_Omitted(self_random_state) == None

\* random_state=self.random_state of both train_test_split calls
RandomStateArg(self_random_state) == Some(self_random_state)

\* train_test_split with random_state=seed.  A shuffle seeded with an int
\* repeats itself: on rows this seed has already shuffled it returns the draw
\* made then.  With random_state=None it takes fresh entropy.
SeededSplit(rows, dx, test_size, seed, draws) ==
    LET made == {m \in draws : m.seed = seed /\ m.rows = rows}
    IN IF seed # None /\ made # {}
       THEN {m.drawn : m \in made}
       ELSE TrainTestSplit(rows, dx, test_size)

\* the draws made so far, with those of this outcome
RecordDraws(draws, seed, outcome) ==
    IF seed = None THEN draws
    ELSE draws \cup {[seed |-> seed, rows |-> d.rows, drawn |-> d.drawn] :
                        d \in outcome.draws}

\* Mutant: the second split is drawn from the whole registry, not the holdout.
SecondSplitInput_Whole(df, temp_df) == df

\* the rows handed to the second train_test_split: temp_df
SecondSplitInput(df, temp_df) == temp_df

\* split_data on the registry with the shuffles seeded by seed: every
\* outcome, an error or three partitions, with the draws of the
\* train_test_split calls that returned
SplitDataOutcomes(dx, val_ratio, test_ratio, seed, draws) ==
    LET df == 1..Len(dx)
        temp_ratio == val_ratio + test_ratio
        first_error == TrainTestSplitError(df, dx, temp_ratio)
    IN IF first_error # None
       THEN {[error |-> first_error, train |-> {}, val |-> {}, test |-> {},
              draws |-> {}]}
       ELSE UNION {
              LET rows == SecondSplitInput(df, first.test)
                  second_error == TrainTestSplitError(rows, dx, HalfTestSize)
              IN IF second_error # None
                 THEN {[error |-> second_error,
                        train |-> {}, val |-> {}, test |-> {},
                        draws |-> {[rows |-> df, drawn |-> first]}]}
                 ELSE {[error |-> None, train |-> first.train,
                        val |-> second.train, test |-> second.test,
                        draws |-> {[rows |-> df, drawn |-> first],
                                   [rows |-> rows, drawn |-> second]}] :
                          second \in SeededSplit(rows, dx, HalfTestSize,
                                                 seed, draws)} :
              first \in SeededSplit(df, dx, temp_ratio, seed, draws)}

\* the dx values of the registries used as inputs
SplitClasses == {"mel", "nv"}

\* master_metadata.csv contents: the dx column, row by row
Registries == UNION {[1..n -> SplitClasses] : n \in 0..MaxRegistry}

\* (train_ratio, val_ratio, test_ratio) in millionths
RatioChoices ==
    {<<700000, 150000, 150000>>, <<340000, 330000, 330000>>,
     <<500000, 250000, 250000>>, <<700000, 200000, 100000>>,
     <<1000000, 0, 0>>, <<0, 500000, 500000>>,
     <<1200000, -100000, -100000>>, <<900000, 200000, -100000>>,
     <<700000, 150000, 150005>>, <<700000, 150000, 150020>>,
     <<600000, 150000, 150000>>, <<200000, 700000, 100000>>}

\* Before StratifiedDataSplitter(metadata_path, output_dir, ratios) is called:
\* the metadata file exists or not, the output directory does not.
InitSplitter ==
    /\ ratios \in RatioChoices
    /\ metadata_csv \in {None} \cup {Some(q) : q \in Registries}
    /\ output_dir = FALSE
    /\ sp_pc = "new"
    /\ train_df = None /\ val_df = None /\ test_df = None
    /\ sp_error = None
    /\ sp_warnings = <<>>
    /\ random_state \in Seeds
    /\ rng_draws = {}
    /\ rerun = None

InitSplit ==
    /\ InitSplitter
    /\ MergerIdle
    /\ StopperIdle
    /\ TrainerIdle
    /\ LoadersIdle
    /\ MetricsIdle
    /\ DatasetIdle
    /\ BatchLoopIdle

\* StratifiedDataSplitter.__init__
Construct ==
    /\ sp_pc = "new"
    /\ IF ~IsCloseToOne(ratios[1] + ratios[2] + ratios[3])
       THEN /\ sp_pc' = "failed"
            /\ sp_error' = Some("ValueError: Ratios must sum to 1.0")
            /\ UNCHANGED output_dir
       ELSE IF metadata_csv = None
       THEN /\ sp_pc' = "failed"
            /\ sp_error' = Some("FileNotFoundError: Metadata not found")
            /\ UNCHANGED output_dir
       ELSE /\ sp_pc' = "ready"
            /\ output_dir' = TRUE
            /\ UNCHANGED sp_error
    /\ UNCHANGED <<ratios, metadata_csv, train_df, val_df, test_df, sp_warnings>>
    /\ UNCHANGED <<random_state, rng_draws, rerun>>
    /\ UNCHANGED outsideSplitter

\* StratifiedDataSplitter.split_data
SplitData ==
    /\ sp_pc = "ready"
    /\ LET seed == RandomStateArg(random_state)
       IN \E outcome \in SplitDataOutcomes(metadata_csv[1], ratios[2],
                                            ratios[3], seed, rng_draws) :
           /\ rng_draws' = RecordDraws(rng_draws, seed, outcome)
           /\ IF outcome.error # None
              THEN /\ sp_pc' = "failed"
                   /\ sp_error' = outcome.error
                   /\ UNCHANGED <<train_df, val_df, test_df>>
              ELSE /\ sp_pc' = "done"
                   /\ train_df' = Some(outcome.train)
                   /\ val_df' = Some(outcome.val)
                   /\ test_df' = Some(outcome.test)
                   /\ UNCHANGED sp_error
    /\ UNCHANGED <<ratios, metadata_csv, output_dir, sp_warnings>>
    /\ UNCHANGED <<random_state, rerun>>
    /\ UNCHANGED outsideSplitter

\* split_data is called a second time on the same StratifiedDataSplitter:
\* the same metadata file, ratios and random_state.
SplitDataAgain ==
    /\ sp_pc \in {"done", "failed"}
    /\ output_dir
    /\ rerun = None
    /\ LET seed == RandomStateArg(random_state)
       IN \E outcome \in SplitDataOutcomes(metadata_csv[1], ratios[2],
                                            ratios[3], seed, rng_draws) :
           /\ rng_draws' = RecordDraws(rng_draws, seed, outcome)
           /\ rerun' = Some([random_state |-> random_state,
                             error |-> outcome.error,
                             train_df |-> outcome.train,
                             val_df |-> outcome.val,
                             test_df |-> outcome.test])
    /\ UNCHANGED <<ratios, metadata_csv, output_dir, sp_pc, train_df, val_df,
                   test_df, sp_error, sp_warnings, random_state>>
    /\ UNCHANGED outsideSplitter

NextSplit ==
    \/ Construct
    \/ SplitData

SpecSplit == InitSplit /\ [][NextSplit]_vars

NextRerun ==
    \/ Construct
    \/ SplitData
    \/ SplitDataAgain

SpecRerun == InitSplit /\ [][NextRerun]_vars

\* --------------------------------------------------------------- DataMerger

\* label_columns of harmonize_isic_labels, in their order
LabelColumns == <<"MEL", "NV", "BCC", "AK", "BKL", "DF", "VASC", "SCC">>

\* str.lower() on the column names
Lower(name) ==
    CASE name = "MEL" -> "mel" [] name = "NV" -> "nv" [] name = "BCC" -> "bcc"
      [] name = "AK" -> "ak" [] name = "BKL" -> "bkl" [] name = "DF" -> "df"
      [] name = "VASC" -> "vasc" [] name = "SCC" -> "scc"

\* df['dx'].replace({'ak': 'akiec'})
ReplaceAk(dx) == IF dx = "ak" THEN "akiec" ELSE dx

\* DataFrame.idxmax(axis=1) over the label columns: the first column that
\* holds the row's maximum
IdxMax(labels) ==
    LET top == CHOOSE v \in {0, 1} :
                   /\ \E c \in 1..Len(LabelColumns) : labels[c] = v
                   /\ \A c \in 1..Len(LabelColumns) : labels[c] <= v
        first == CHOOSE c \in 1..Len(LabelColumns) :
                     /\ labels[c] = top
                     /\ \A d \in 1..(c - 1) : labels[d] # top
    IN LabelColumns[first]

\* harmonize_isic_labels on one row: the dx column it adds
HarmonizeRow(row) ==
    [image_id |-> row.image_id, dx |-> ReplaceAk(Lower(IdxMax(row.labels)))]

\* harmonize_isic_labels on the rows, then the [['image_id', 'dx']] selection
\* and the source tag of merge_datasets
HarmonizeIsicLabels(rows) ==
    [i \in 1..Len(rows) |->
        [image_id |-> HarmonizeRow(rows[i]).image_id,
         dx |-> HarmonizeRow(rows[i]).dx,
         source |-> "isic2019"]]

\* the rows of q that satisfy Keep, in their order
RECURSIVE SelectRows(_, _)
SelectRows(q, keep) ==
    IF q = <<>> THEN <<>>
    ELSE LET rest == SelectRows(Tail(q), keep)
         IN IF Head(q).image_id \in keep THEN <<Head(q)>> \o rest ELSE rest

\* Mutant: nothing is removed from the ISIC rows.
RemoveDuplicates_KeepsAll(ham_df, isic_df) == isic_df

\* remove_duplicates: the ISIC rows whose image_id is no HAM image_id
RemoveDuplicates(ham_df, isic_df) ==
    LET ham_image_ids == {ham_df[i].image_id : i \in 1..Len(ham_df)}
        isic_ids == {isic_df[i].image_id : i \in 1..Len(isic_df)}
    IN SelectRows(isic_df, isic_ids \ ham_image_ids)

\* Series.value_counts().to_dict() of a column
ValueCounts(df, column) ==
    LET present == {df[i][column] : i \in 1..Len(df)}
    IN [v \in present |->
           Cardinality({i \in 1..Len(df) : df[i][column] = v})]

\* the statistics dictionary of merge_datasets
MergeStats(master_df, ham_df, isic_df) ==
    [total_images |-> Len(master_df),
     ham10000_count |-> Len(ham_df),
     isic2019_count |-> Len(isic_df),
     class_distribution |-> ValueCounts(master_df, "dx"),
     source_distribution |-> ValueCounts(master_df, "source")]

HasDistinctIds(q) ==
    \A i, j \in 1..Len(q) : i # j => q[i].image_id # q[j].image_id

\* the dx values of HAM10000 rows used as inputs
HamClasses == {"mel", "nv"}

\* the indicator rows used as inputs: none set, MEL, NV, AK
IndicatorRows ==
    {[c \in 1..Len(LabelColumns) |-> IF c \in on THEN 1 ELSE 0] :
        on \in {{}, {1}, {2}, {4}}}

\* HAM10000_metadata.csv contents: rows with distinct image ids
HamInputs ==
    {q \in UNION {[1..n -> [image_id : ImageIds, dx : HamClasses]] :
                     n \in 0..MaxRows} : HasDistinctIds(q)}

\* ISIC_2019_Training_GroundTruth.csv contents: at least one row
IsicInputs ==
    {q \in UNION {[1..n -> [image_id : ImageIds, labels : IndicatorRows]] :
                     n \in 1..MaxRows} : HasDistinctIds(q)}

\* a master_metadata.csv left in the processed directory by an earlier run
OldMaster == <<[image_id |-> 1, dx |-> "nv", source |-> "ham10000"]>>

\* The raw directory holds, or lacks, each metadata file; the ISIC file may
\* lack a label column; the processed directory may hold an earlier master
\* file.
InitMerger ==
    /\ ham_csv \in {None} \cup {Some(q) : q \in HamInputs}
    /\ isic_csv \in {None} \cup
           {Some([rows |-> q, has_label_columns |-> b]) :
               q \in IsicInputs, b \in BOOLEAN}
    /\ master_csv \in {None, Some(OldMaster)}
    /\ mg_pc = "ready"
    /\ mg_result = None
    /\ mg_error = None

InitMerge ==
    /\ InitMerger
    /\ StopperIdle
    /\ TrainerIdle
    /\ SplitterIdle
    /\ LoadersIdle
    /\ MetricsIdle
    /\ DatasetIdle
    /\ BatchLoopIdle

\* the messages of the two FileNotFoundErrors, each with the path it names
HamNotFound ==
    "FileNotFoundError: HAM10000 metadata not found: raw/HAM_10000/HAM10000_metadata.csv"
IsicNotFound ==
    "FileNotFoundError: ISIC 2019 metadata not found: raw/ISIC_2019/ISIC_2019_Training_GroundTruth.csv"

\* Mutant: a failing merge leaves an empty master_metadata.csv behind.
MergeFails_WritesEmpty(message) ==
    /\ mg_pc' = "failed"
    /\ mg_error' = Some(message)
    /\ master_csv' = Some(<<>>)
    /\ UNCHANGED <<ham_csv, isic_csv, mg_result>>

\* merge_datasets raises: nothing is saved and nothing returned
MergeFails(message) ==
    /\ mg_pc' = "failed"
    /\ mg_error' = Some(message)
    /\ UNCHANGED <<ham_csv, isic_csv, master_csv, mg_result>>

\* DataMerger.merge_datasets
MergeDatasets ==
    /\ mg_pc = "ready"
    /\ IF ham_csv = None
       THEN MergeFails(HamNotFound)
       ELSE IF isic_csv = None
       THEN MergeFails(IsicNotFound)
       ELSE IF ~isic_csv[1].has_label_columns
       THEN MergeFails("ValueError: Missing label columns in ISIC data")
       ELSE LET ham_df == [i \in 1..Len(ham_csv[1]) |->
                              [image_id |-> ham_csv[1][i].image_id,
                               dx |-> ham_csv[1][i].dx,
                               source |-> "ham10000"]]
                isic_df == RemoveDuplicates(
                               ham_df, HarmonizeIsicLabels(isic_csv[1].rows))
                master_df == ham_df \o isic_df
            IN /\ master_csv' = Some(master_df)
               /\ mg_result' = Some([master_df |-> master_df,
                                     stats |-> MergeStats(master_df, ham_df,
                                                          isic_df)])
               /\ mg_pc' = "done"
               /\ UNCHANGED <<ham_csv, isic_csv, mg_error>>
    /\ UNCHANGED outsideMerger

NextMerge == MergeDatasets

SpecMerge == InitMerge /\ [][NextMerge]_vars

\* ------------------------------------------------------------------ Trainer

\* optim.lr_scheduler.ReduceLROnPlateau(mode='max', factor, patience, min_lr)
\* as Trainer.__init__ builds it (threshold 1e-4 relative, no cooldown).
\* best = None stands for the initial -inf.
SchedulerNew(patience) ==
    [patience |-> patience, best |-> None, num_bad_epochs |-> 0]

\* The learning rate is learning_rate * factor^lr_level, floored at min_lr,
\* which is reached after MaxReductions reductions.
ReduceLR(level) == IF level < MaxReductions THEN level + 1 ELSE level

\* self.scheduler.step(value): the scheduler and the lr level afterwards
SchedulerStep(s, level, value) ==
    LET better == \/ s.best = None
                  \/ value * 10000 > s.best[1] * 10001
        best == IF better THEN Some(value) ELSE s.best
        bad == IF better THEN 0 ELSE s.num_bad_epochs + 1
    IN IF bad > s.patience
       THEN [s |-> [s EXCEPT !.best = best, !.num_bad_epochs = 0],
             level |-> ReduceLR(level)]
       ELSE [s |-> [s EXCEPT !.best = best, !.num_bad_epochs = bad],
             level |-> level]

\* Trainer.__init__: best_val_balanced_acc starts at 0.0
InitialBest == 0

\* Mutant: a value equal to the best so far is flagged too.
IsBest_OrEqual(value, best) == value >= best

\* Mutant: the comparison is the wrong way round.
IsBest_Reversed(value, best) == value < best

\* is_best = metrics['balanced_accuracy'] > self.best_val_balanced_acc
IsBest(value, best) == value > best

\* the checkpoint dictionary _save_checkpoint builds
CheckpointRecord(ep, model, level, value) ==
    [epoch |-> ep, model_state_dict |-> model, optimizer_state_dict |-> level,
     val_balanced_acc |-> value, metrics |-> [balanced_accuracy |-> value]]

\* Mutant: the best file is overwritten on every save.
SaveCheckpoint_AlwaysBest(record, is_best, latest, best) ==
    [latest |-> Some(record), best |-> Some(record)]

\* _save_checkpoint: the latest and the best file afterwards
SaveCheckpoint(record, is_best, latest, best) ==
    [latest |-> Some(record), best |-> IF is_best THEN Some(record) ELSE best]

TrainerPatiences == 1..MaxPatience
SchedPatiences == {0, 1}

\* Trainer.__init__ with a configuration drawn from the bounded sets.
InitTrainer ==
    /\ pc = "epoch_start"
    /\ epoch = 0
    /\ num_epochs \in 0..MaxEpochs
    /\ model_state = 0
    /\ lr_level = 0
    /\ \E sp \in SchedPatiences : scheduler = SchedulerNew(sp)
    /\ \E p \in TrainerPatiences :
           early_stopping = EarlyStoppingNew(p, DefaultMinDelta, "max")
    /\ best_val_balanced_acc = InitialBest
    /\ history = [val_balanced_acc |-> <<>>, lr |-> <<>>]
    /\ metrics = None
    /\ latest_ckpt = None
    /\ best_ckpt = None
    /\ is_best_log = <<>>
    /\ stop_log = <<>>

InitTrain ==
    /\ InitTrainer
    /\ resumed = None
    /\ StopperIdle
    /\ MergerIdle
    /\ SplitterIdle
    /\ LoadersIdle
    /\ MetricsIdle
    /\ DatasetIdle
    /\ BatchLoopIdle

\* for epoch in range(num_epochs): _train_one_epoch(epoch)
TrainPhase ==
    /\ pc = "epoch_start"
    /\ epoch < num_epochs
    /\ model_state' = model_state + 1
    /\ pc' = "validate_phase"
    /\ UNCHANGED <<epoch, num_epochs, lr_level, scheduler, early_stopping,
                   best_val_balanced_acc, history, metrics, latest_ckpt,
                   best_ckpt, is_best_log, stop_log, outsideTrainer, resumed>>

\* Mutant: the checkpoint is saved right after validation, before the
\* scheduler step.
ValidatePhase_ThenSave ==
    /\ pc = "validate_phase"
    /\ \E value \in Values : metrics' = Some(value)
    /\ pc' = "checkpoint_decision"
    /\ UNCHANGED <<epoch, num_epochs, model_state, lr_level, scheduler,
                   early_stopping, best_val_balanced_acc, history, latest_ckpt,
                   best_ckpt, is_best_log, stop_log, outsideTrainer, resumed>>

\* Mutant: the model is left in training mode, so the validation batches
\* update its BatchNorm statistics.
ValidatePhase_UpdatesModel ==
    /\ pc = "validate_phase"
    /\ \E value \in Values : metrics' = Some(value)
    /\ model_state' = model_state + 1
    /\ pc' = "schedule_update"
    /\ UNCHANGED <<epoch, num_epochs, lr_level, scheduler,
                   early_stopping, best_val_balanced_acc, history, latest_ckpt,
                   best_ckpt, is_best_log, stop_log, outsideTrainer, resumed>>

\* _validate(epoch): the metrics of this epoch, any balanced accuracy
ValidatePhase ==
    /\ pc = "validate_phase"
    /\ \E value \in Values : metrics' = Some(value)
    /\ pc' = "schedule_update"
    /\ UNCHANGED <<epoch, num_epochs, model_state, lr_level, scheduler,
                   early_stopping, best_val_balanced_acc, history, latest_ckpt,
                   best_ckpt, is_best_log, stop_log, outsideTrainer, resumed>>

\* current_lr is read, the scheduler stepped, the history appended
ScheduleUpdate ==
    /\ pc = "schedule_update"
    /\ LET r == SchedulerStep(scheduler, lr_level, metrics[1])
       IN /\ scheduler' = r.s
          /\ lr_level' = r.level
    /\ history' = [val_balanced_acc |->
                       Append(history.val_balanced_acc, metrics[1]),
                   lr |-> Append(history.lr, lr_level)]
    /\ pc' = "checkpoint_decision"
    /\ UNCHANGED <<epoch, num_epochs, model_state, early_stopping,
                   best_val_balanced_acc, metrics, latest_ckpt, best_ckpt,
                   is_best_log, stop_log, outsideTrainer, resumed>>

\* is_best is computed, best_val_balanced_acc updated, the checkpoint saved
CheckpointDecision ==
    /\ pc = "checkpoint_decision"
    /\ LET is_best == IsBest(metrics[1], best_val_balanced_acc)
           record == CheckpointRecord(epoch, model_state, lr_level, metrics[1])
           saved == SaveCheckpoint(record, is_best, latest_ckpt, best_ckpt)
       IN /\ best_val_balanced_acc' =
                 IF is_best THEN metrics[1] ELSE best_val_balanced_acc
          /\ latest_ckpt' = saved.latest
          /\ best_ckpt' = saved.best
          /\ is_best_log' = Append(is_best_log, is_best)
    /\ pc' = "stop_check"
    /\ UNCHANGED <<epoch, num_epochs, model_state, lr_level, scheduler,
                   early_stopping, history, metrics, stop_log, outsideTrainer, resumed>>

\* Mutant: the loop does not break when EarlyStopping returns True.
StopCheckTrainer_NoBreak ==
    /\ pc = "stop_check"
    /\ LET r == EarlyStoppingCall(early_stopping, metrics[1])
       IN /\ early_stopping' = r.self
          /\ stop_log' = Append(stop_log, r.ret)
    /\ pc' = "epoch_start"
    /\ epoch' = epoch + 1
    /\ UNCHANGED <<num_epochs, model_state, lr_level, scheduler,
                   best_val_balanced_acc, history, metrics, latest_ckpt,
                   best_ckpt, is_best_log, outsideTrainer>>

\* if self.early_stopping(value): break; otherwise the next epoch
StopCheckTrainer ==
    /\ pc = "stop_check"
    /\ LET r == EarlyStoppingCall(early_stopping, metrics[1])
       IN /\ early_stopping' = r.self
          /\ stop_log' = Append(stop_log, r.ret)
          /\ IF r.ret
             THEN pc' = "terminated" /\ epoch' = epoch
             ELSE pc' = "epoch_start" /\ epoch' = epoch + 1
    /\ UNCHANGED <<num_epochs, model_state, lr_level, scheduler,
                   best_val_balanced_acc, history, metrics, latest_ckpt,
                   best_ckpt, is_best_log, outsideTrainer>>

StopCheck == StopCheckTrainer /\ UNCHANGED resumed

\* range(num_epochs) is exhausted: the curves are plotted, history returned
LoopExit ==
    /\ pc = "epoch_start"
    /\ epoch >= num_epochs
    /\ pc' = "terminated"
    /\ UNCHANGED <<epoch, num_epochs, model_state, lr_level, scheduler,
                   early_stopping, best_val_balanced_acc, history, metrics,
                   latest_ckpt, best_ckpt, is_best_log, stop_log,
                   outsideTrainer, resumed>>

NextTrain ==
    \/ TrainPhase
    \/ ValidatePhase
    \/ ScheduleUpdate
    \/ CheckpointDecision
    \/ StopCheck
    \/ LoopExit

SpecTrain == InitTrain /\ [][NextTrain]_vars

\* Every phase of train() returns: the loaders are finite and nothing blocks.
FairSpecTrain == SpecTrain /\ WF_vars(NextTrain)

\* ---------------------------------------------- resuming from a checkpoint

\* A Trainer built by Trainer.__init__ with the same configuration, into which
\* everything the checkpoint record holds is loaded: the epoch index, the
\* model state and the optimizer state (the learning rate).  What the record
\* does not hold keeps its __init__ value.
RestoreFrom(record, es_patience, sched_patience) ==
    [from |-> record.epoch + 1,
     model_state |-> record.model_state_dict,
     lr_level |-> record.optimizer_state_dict,
     scheduler |-> SchedulerNew(sched_patience),
     early_stopping |-> EarlyStoppingNew(es_patience, DefaultMinDelta, "max"),
     best_val_balanced_acc |-> InitialBest,
     is_best_log |-> <<>>, lr_log |-> <<>>, stop_log |-> <<>>]

\* One epoch of train() in the restored Trainer, on the same balanced accuracy:
\* scheduler step, is_best decision, early-stopping call, in that order.
ResumedEpoch(r, value) ==
    LET sch == SchedulerStep(r.scheduler, r.lr_level, value)
        is_best == IsBest(value, r.best_val_balanced_acc)
        es == EarlyStoppingCall(r.early_stopping, value)
    IN [r EXCEPT !.model_state = r.model_state + 1,
                 !.scheduler = sch.s,
                 !.lr_level = sch.level,
                 !.best_val_balanced_acc =
                     IF is_best THEN value ELSE r.best_val_balanced_acc,
                 !.early_stopping = es.self,
                 !.is_best_log = Append(r.is_best_log, is_best),
                 !.lr_log = Append(r.lr_log, sch.level),
                 !.stop_log = Append(r.stop_log, es.ret)]

\* Between two epochs a second run is started from the latest checkpoint.
Resume ==
    /\ pc = "epoch_start"
    /\ epoch < num_epochs
    /\ latest_ckpt # None
    /\ resumed = None
    /\ resumed' = Some(RestoreFrom(latest_ckpt[1], early_stopping.patience,
                                   scheduler.patience))
    /\ UNCHANGED <<trVars, outsideTrainer>>

\* The end of an epoch, which the restored run completes on the same metrics.
StopCheckBoth ==
    /\ StopCheckTrainer
    /\ resumed' = IF resumed = None THEN None
                  ELSE Some(ResumedEpoch(resumed[1], metrics[1]))

NextResume ==
    \/ TrainPhase
    \/ ValidatePhase
    \/ ScheduleUpdate
    \/ CheckpointDecision
    \/ StopCheckBoth
    \/ LoopExit
    \/ Resume

SpecResume == InitTrain /\ [][NextResume]_vars

\* ------------------------------------------------- a crash during train()

\* torch.save(checkpoint, path) opens path for writing, which empties it, and
\* then writes the record: until the write ends the file holds a truncated
\* archive, which is what a crash leaves behind.
Truncated(record) == [truncated_epoch |-> record.epoch]

IsComplete(file) == "model_state_dict" \in DOMAIN file

\* the record _save_checkpoint is writing in this epoch
RecordAtHand == CheckpointRecord(epoch, model_state, lr_level, metrics[1])

\* is_best is computed, best_val_balanced_acc updated, _save_checkpoint
\* builds the record and torch.save opens the latest file
OpenLatest ==
    /\ pc = "checkpoint_decision"
    /\ LET is_best == IsBest(metrics[1], best_val_balanced_acc)
       IN /\ best_val_balanced_acc' =
                 IF is_best THEN metrics[1] ELSE best_val_balanced_acc
          /\ is_best_log' = Append(is_best_log, is_best)
    /\ latest_ckpt' = Some(Truncated(RecordAtHand))
    /\ pc' = "saving_latest"
    /\ UNCHANGED <<epoch, num_epochs, model_state, lr_level, scheduler,
                   early_stopping, history, metrics, best_ckpt, stop_log,
                   outsideTrainer, resumed>>

\* torch.save(checkpoint, latest_path) returns
CloseLatest ==
    /\ pc = "saving_latest"
    /\ latest_ckpt' = Some(RecordAtHand)
    /\ pc' = IF is_best_log[Len(is_best_log)] THEN "is_best" ELSE "stop_check"
    /\ UNCHANGED <<epoch, num_epochs, model_state, lr_level, scheduler,
                   early_stopping, best_val_balanced_acc, history, metrics,
                   best_ckpt, is_best_log, stop_log, outsideTrainer, resumed>>

\* if is_best: torch.save opens the best file
OpenBest ==
    /\ pc = "is_best"
    /\ best_ckpt' = Some(Truncated(RecordAtHand))
    /\ pc' = "saving_best"
    /\ UNCHANGED <<epoch, num_epochs, model_state, lr_level, scheduler,
                   early_stopping, best_val_balanced_acc, history, metrics,
                   latest_ckpt, is_best_log, stop_log, outsideTrainer, resumed>>

\* torch.save(checkpoint, best_path) returns
CloseBest ==
    /\ pc = "saving_best"
    /\ best_ckpt' = Some(RecordAtHand)
    /\ pc' = "stop_check"
    /\ UNCHANGED <<epoch, num_epochs, model_state, lr_level, scheduler,
                   early_stopping, best_val_balanced_acc, history, metrics,
                   latest_ckpt, is_best_log, stop_log, outsideTrainer, resumed>>

\* The process dies at any point of train(): the files stay as they are.
Crash ==
    /\ pc \notin {"terminated", "crashed"}
    /\ pc' = "crashed"
    /\ UNCHANGED <<epoch, num_epochs, model_state, lr_level, scheduler,
                   early_stopping, best_val_balanced_acc, history, metrics,
                   latest_ckpt, best_ckpt, is_best_log, stop_log,
                   outsideTrainer, resumed>>

NextCrash ==
    \/ TrainPhase
    \/ ValidatePhase
    \/ ScheduleUpdate
    \/ OpenLatest
    \/ CloseLatest
    \/ OpenBest
    \/ CloseBest
    \/ StopCheck
    \/ LoopExit
    \/ Crash

SpecCrash == InitTrain /\ [][NextCrash]_vars

\* --------------------------------------------------------- _train_one_epoch

\* len(self.train_loader) is at most MaxBatches
MaxBatches == 3

\* Mutant: the gradients are not reset at the start of a batch.
ZeroGrad_Omitted(g) == g

\* self.optimizer.zero_grad(set_to_none=True): the .grad of every parameter
ZeroGrad(g) == None

\* self.scaler.scale(loss).backward(): the gradients of this batch's loss
\* are added to whatever the parameters hold; they carry the loss scale
\* when the GradScaler is enabled
BackwardInto(g, b, amp) ==
    [of |-> (IF g = None THEN {} ELSE g[1].of) \cup {b},
     scaled |-> amp, clipped |-> FALSE, found_inf |-> FALSE]

\* self.scaler.unscale_(self.optimizer): divides the gradients by the scale
\* and records whether an inf or NaN was found; a no-op when disabled
UnscaleOutcomes(g, amp) ==
    IF amp
    THEN {[g EXCEPT !.scaled = FALSE, !.found_inf = inf] : inf \in BOOLEAN}
    ELSE {g}

\* torch.nn.utils.clip_grad_norm_(self.model.parameters(), self.grad_clip)
ClipGradNormOf(g) == [g EXCEPT !.clipped = TRUE]

\* self.scaler.step(self.optimizer) calls optimizer.step() unless unscale_
\* found an inf or NaN
StepSkipped(g, amp) == amp /\ g.found_inf

\* Trainer.__init__ has set use_amp; train() enters _train_one_epoch
InitBatchLoop ==
    /\ bt_pc = "for"
    /\ use_amp \in BOOLEAN
    /\ n_batches \in 0..MaxBatches
    /\ batch_idx = 0
    /\ grads = None
    /\ optimizer_steps = <<>>
    /\ bt_log = <<>>

InitBatch ==
    /\ InitBatchLoop
    /\ StopperIdle
    /\ MergerIdle
    /\ SplitterIdle
    /\ TrainerIdle
    /\ LoadersIdle
    /\ MetricsIdle
    /\ DatasetIdle

\* what the steps of a batch leave alone
batchConfig == <<use_amp, n_batches>>

\* for images, labels in pbar: the next batch is moved to the device
ForBatch ==
    /\ bt_pc = "for"
    /\ batch_idx < n_batches
    /\ batch_idx' = batch_idx + 1
    /\ bt_pc' = "zero_grad"
    /\ UNCHANGED <<grads, optimizer_steps, bt_log, batchConfig>>
    /\ UNCHANGED outsideBatch

ZeroGradCall ==
    /\ bt_pc = "zero_grad"
    /\ grads' = ZeroGrad(grads)
    /\ bt_log' = Append(bt_log, [batch |-> batch_idx, step |-> "zero_grad"])
    /\ bt_pc' = "forward"
    /\ UNCHANGED <<batch_idx, optimizer_steps, batchConfig>>
    /\ UNCHANGED outsideBatch

\* logits = self.model(images); loss = self.criterion(logits, labels)
ForwardLoss ==
    /\ bt_pc = "forward"
    /\ bt_log' = Append(bt_log, [batch |-> batch_idx, step |-> "forward_loss"])
    /\ bt_pc' = "backward"
    /\ UNCHANGED <<batch_idx, grads, optimizer_steps, batchConfig>>
    /\ UNCHANGED outsideBatch

Backward ==
    /\ bt_pc = "backward"
    /\ grads' = Some(BackwardInto(grads, batch_idx, use_amp))
    /\ bt_log' = Append(bt_log, [batch |-> batch_idx, step |-> "backward"])
    /\ bt_pc' = "unscale"
    /\ UNCHANGED <<batch_idx, optimizer_steps, batchConfig>>
    /\ UNCHANGED outsideBatch

Unscale ==
    /\ bt_pc = "unscale"
    /\ \E g \in UnscaleOutcomes(grads[1], use_amp) : grads' = Some(g)
    /\ bt_log' = Append(bt_log, [batch |-> batch_idx, step |-> "unscale"])
    /\ bt_pc' = "clip"
    /\ UNCHANGED <<batch_idx, optimizer_steps, batchConfig>>
    /\ UNCHANGED outsideBatch

ClipGradNorm ==
    /\ bt_pc = "clip"
    /\ grads' = Some(ClipGradNormOf(grads[1]))
    /\ bt_log' = Append(bt_log, [batch |-> batch_idx, step |-> "clip"])
    /\ bt_pc' = "step"
    /\ UNCHANGED <<batch_idx, optimizer_steps, batchConfig>>
    /\ UNCHANGED outsideBatch

\* self.scaler.step(self.optimizer)
ScalerStep ==
    /\ bt_pc = "step"
    /\ optimizer_steps' =
           IF StepSkipped(grads[1], use_amp) THEN optimizer_steps
           ELSE Append(optimizer_steps, [batch |-> batch_idx, grads |-> grads[1]])
    /\ bt_log' = Append(bt_log, [batch |-> batch_idx, step |-> "step"])
    /\ bt_pc' = "update"
    /\ UNCHANGED <<batch_idx, grads, batchConfig>>
    /\ UNCHANGED outsideBatch

\* self.scaler.update() and the running loss and accuracy
ScalerUpdate ==
    /\ bt_pc = "update"
    /\ bt_pc' = "for"
    /\ UNCHANGED <<batch_idx, grads, optimizer_steps, bt_log, batchConfig>>
    /\ UNCHANGED outsideBatch

\* the loader is exhausted: avg_loss = total_loss / len(self.train_loader)
EpochReturn ==
    /\ bt_pc = "for"
    /\ batch_idx = n_batches
    /\ bt_pc' = IF n_batches = 0 THEN "ZeroDivisionError" ELSE "returned"
    /\ UNCHANGED <<batch_idx, grads, optimizer_steps, bt_log, batchConfig>>
    /\ UNCHANGED outsideBatch

NextBatchLoop ==
    \/ ForBatch
    \/ ZeroGradCall
    \/ ForwardLoss
    \/ Backward
    \/ Unscale
    \/ ClipGradNorm
    \/ ScalerStep
    \/ ScalerUpdate
    \/ EpochReturn

SpecBatch == InitBatch /\ [][NextBatchLoop]_vars

\* ------------------------------------------- class weights and DataLoaders

\* train.csv and val.csv hold at most MaxTrain rows
MaxTrain == 3

\* config.dataset.class_to_idx, for three of its classes in index order
ClassOrder == <<"bcc", "mel", "nv">>
ClassNames == {ClassOrder[i] : i \in 1..Len(ClassOrder)}
ClassToIdx ==
    [c \in ClassNames |-> (CHOOSE i \in 1..Len(ClassOrder) : ClassOrder[i] = c) - 1]

\* A weight is the quotient num / den, carried exactly; the binary rounding
\* of the float64 division and of torch.FloatTensor is not represented (1.0
\* is exact under both).
Quotient(n, d) == [num |-> n, den |-> d]
SameNumber(a, b) == a.num * b.den = b.num * a.den

\* df['dx'].value_counts().to_dict().get(diagnosis, 0)
CountOf(csv, diagnosis) ==
    Cardinality({i \in 1..Len(csv) : csv[i] = diagnosis})

\* beta = 0.9999 on a grid of 1/BetaScale: beta is BetaScale - 1
BetaScale == 10000

\* np.power(beta, count) on that grid
RECURSIVE BetaPower(_)
BetaPower(count) ==
    IF count = 0 THEN BetaScale
    ELSE (BetaPower(count - 1) * (BetaScale - 1)) \div BetaScale

\* (1.0 - beta) / (1.0 - np.power(beta, count))
EffectiveNumberWeight(count) ==
    Quotient(BetaScale - (BetaScale - 1), BetaScale - BetaPower(count))

\* Mutant: num_classes is left out of the denominator.
InverseFrequencyWeight_NoClasses(total_samples, num_classes, count) ==
    Quotient(total_samples, count)

\* total_samples / (num_classes * count)
InverseFrequencyWeight(total_samples, num_classes, count) ==
    Quotient(total_samples, num_classes * count)

\* Mutant: the count of a class is never taken to be zero.
HasNoRows_Ignored(count) == FALSE

\* if count == 0
HasNoRows(count) == count = 0

\* the for loop of compute_class_weights from the i-th class of class_to_idx
\* on; acc holds the weights array, the warnings logged and the error raised
RECURSIVE WeightLoop(_, _, _, _)
WeightLoop(csv, method, i, acc) ==
    IF i > Len(ClassOrder) THEN acc
    ELSE LET diagnosis == ClassOrder[i]
             idx == ClassToIdx[diagnosis]
             count == CountOf(csv, diagnosis)
             total_samples == Len(csv)
             num_classes == Len(ClassOrder)
         IN IF HasNoRows(count)
            THEN WeightLoop(csv, method, i + 1,
                     [acc EXCEPT !.weights[idx] = Quotient(1, 1),
                                 !.warnings = Append(@, diagnosis)])
            ELSE IF method = "inverse_frequency"
            THEN IF num_classes * count = 0
                 THEN [acc EXCEPT !.error = Some("ZeroDivisionError")]
                 ELSE WeightLoop(csv, method, i + 1,
                          [acc EXCEPT !.weights[idx] =
                              InverseFrequencyWeight(total_samples,
                                                     num_classes, count)])
            ELSE IF method = "effective_number"
            THEN WeightLoop(csv, method, i + 1,
                     [acc EXCEPT !.weights[idx] = EffectiveNumberWeight(count)])
            ELSE [acc EXCEPT !.error =
                      Some("ValueError: Unknown weighting method")]

\* compute_class_weights(csv_path, class_to_idx, method)
ComputeClassWeights(csv, method) ==
    WeightLoop(csv, method, 1,
               [weights |-> [idx \in 0..(Len(ClassOrder) - 1) |-> Quotient(0, 1)],
                warnings |-> <<>>,
                error |-> None])

\* create_weighted_sampler: WeightedRandomSampler(sample_weights,
\* num_samples=len(sample_weights), replacement=True)
CreateWeightedSampler(csv) ==
    [weights |-> [i \in 1..Len(csv) |-> Quotient(1, CountOf(csv, csv[i]))],
     num_samples |-> Len(csv),
     replacement |-> TRUE]

\* Mutant: the last incomplete batch is dropped.
DropLast_True == TRUE

\* drop_last=False
DropLast == FALSE

\* create_dataloader: the DataLoader it builds over a dataset of that length
CreateDataloader(dataset_len, batch_size, shuffle, num_workers, sampler) ==
    [dataset_len |-> dataset_len,
     batch_size |-> batch_size,
     shuffle |-> IF sampler # None THEN FALSE ELSE shuffle,
     num_workers |-> num_workers,
     drop_last |-> DropLast,
     sampler |-> sampler]

\* create_dataloaders_from_config: the train and the val/test DataLoaders
CreateDataloadersFromConfig(weighted_sampling, batch_size, num_workers) ==
    LET sampler == IF weighted_sampling
                   THEN Some(CreateWeightedSampler(train_csv))
                   ELSE None
    IN [train |-> CreateDataloader(Len(train_csv), batch_size,
                                   sampler = None, num_workers, sampler),
        val |-> CreateDataloader(val_len, batch_size, FALSE, num_workers,
                                 None)]

\* nn.CrossEntropyLoss(weight=class_weights.to(device)) of Trainer.__init__
CrossEntropyLoss(weight) == [weight |-> weight]

\* weighting methods passed to compute_class_weights: the two it knows and
\* one it does not
Methods == {"inverse_frequency", "effective_number", "focal"}

\* config.training.batch_size and config.training.num_workers
BatchSizes == {1, 2}
WorkerCounts == {0, 2}

TrainCsvs == UNION {[1..n -> ClassNames] : n \in 1..MaxTrain}

\* train.csv and val.csv are on disk; nothing has been computed.
InitLoaders ==
    /\ train_csv \in TrainCsvs
    /\ val_len \in 1..MaxTrain
    /\ dl_pc = "start"
    /\ cw_method = None
    /\ class_weights = None
    /\ cw_warnings = <<>>
    /\ cw_error = None
    /\ dataloaders = None
    /\ criterion = None
    /\ loader_iter = None

InitLoad ==
    /\ InitLoaders
    /\ StopperIdle
    /\ MergerIdle
    /\ SplitterIdle
    /\ TrainerIdle
    /\ MetricsIdle
    /\ DatasetIdle
    /\ BatchLoopIdle

\* class_weights = compute_class_weights(train_csv, class_to_idx, method)
ComputeClassWeightsCall ==
    /\ dl_pc = "start"
    /\ \E method \in Methods :
           LET r == ComputeClassWeights(train_csv, method)
           IN /\ cw_method' = Some(method)
              /\ cw_warnings' = r.warnings
              /\ cw_error' = r.error
              /\ IF r.error # None
                 THEN dl_pc' = "failed" /\ UNCHANGED class_weights
                 ELSE dl_pc' = "weights" /\ class_weights' = Some(r.weights)
    /\ UNCHANGED <<train_csv, val_len, dataloaders, criterion, loader_iter>>
    /\ UNCHANGED outsideLoaders

\* dataloaders, datasets = create_dataloaders_from_config(config)
CreateDataloadersCall ==
    /\ dl_pc = "weights"
    /\ \E weighted_sampling \in BOOLEAN, batch_size \in BatchSizes,
          num_workers \in WorkerCounts :
           dataloaders' = Some(CreateDataloadersFromConfig(
                                   weighted_sampling, batch_size, num_workers))
    /\ dl_pc' = "loaders"
    /\ UNCHANGED <<train_csv, val_len, cw_method, class_weights, cw_warnings,
                   cw_error, criterion, loader_iter>>
    /\ UNCHANGED outsideLoaders

\* Trainer(model, train_loader, val_loader, class_weights, config, ...)
TrainerInit ==
    /\ dl_pc = "loaders"
    /\ criterion' = Some(CrossEntropyLoss(class_weights[1]))
    /\ dl_pc' = "training"
    /\ UNCHANGED <<train_csv, val_len, cw_method, class_weights, cw_warnings,
                   cw_error, dataloaders, loader_iter>>
    /\ UNCHANGED outsideLoaders

\* how many indices the loader yields in one epoch
EpochLength(loader) ==
    LET n == IF loader.sampler # None THEN loader.sampler[1].num_samples
             ELSE loader.dataset_len
    IN IF loader.drop_last THEN (n \div loader.batch_size) * loader.batch_size
       ELSE n

\* for batch in loader: the iteration of one epoch begins
StartIteration ==
    /\ dl_pc = "training"
    /\ loader_iter = None
    /\ \E split \in {"train", "val"} :
           loader_iter' = Some([split |-> split,
                                yielded |-> [i \in 1..dataloaders[1][split].dataset_len |-> 0],
                                position |-> 0,
                                batches |-> <<>>])
    /\ UNCHANGED <<train_csv, val_len, dl_pc, cw_method, class_weights,
                   cw_warnings, cw_error, dataloaders, criterion>>
    /\ UNCHANGED outsideLoaders

\* the indices the sampler can hand out for the next batch of `size` indices:
\* WeightedRandomSampler draws with replacement among the indices of positive
\* weight, RandomSampler (shuffle=True) continues a permutation,
\* SequentialSampler (shuffle=False) counts up
BatchDraws(loader, it, size) ==
    LET indices == 1..loader.dataset_len
    IN IF loader.sampler # None
       THEN {b \in [1..size -> indices] :
                \A k \in 1..size : loader.sampler[1].weights[b[k]].num > 0}
       ELSE IF loader.shuffle
       THEN {b \in [1..size -> {i \in indices : it.yielded[i] = 0}] :
                \A j, k \in 1..size : j # k => b[j] # b[k]}
       ELSE {[k \in 1..size |-> it.position + k]}

\* the next batch is fetched (by the main process when num_workers is 0, else
\* by the worker whose turn it is) and yielded
NextBatch ==
    /\ loader_iter # None
    /\ LET it == loader_iter[1]
           loader == dataloaders[1][it.split]
           left == EpochLength(loader) - it.position
           size == IF left < loader.batch_size THEN left ELSE loader.batch_size
           worker == IF loader.num_workers = 0 THEN 0
                     ELSE (Len(it.batches) % loader.num_workers) + 1
       IN /\ left > 0
          /\ \E b \in BatchDraws(loader, it, size) :
                 loader_iter' = Some(
                     [it EXCEPT
                        !.yielded = [i \in DOMAIN it.yielded |->
                            it.yielded[i]
                            + Cardinality({k \in 1..size : b[k] = i})],
                        !.position = it.position + size,
                        !.batches = Append(@, [size |-> size,
                                               worker |-> worker])])
    /\ UNCHANGED <<train_csv, val_len, dl_pc, cw_method, class_weights,
                   cw_warnings, cw_error, dataloaders, criterion>>
    /\ UNCHANGED outsideLoaders

\* the loader is exhausted: the for loop over it ends
EndIteration ==
    /\ loader_iter # None
    /\ loader_iter[1].position = EpochLength(dataloaders[1][loader_iter[1].split])
    /\ loader_iter' = None
    /\ UNCHANGED <<train_csv, val_len, dl_pc, cw_method, class_weights,
                   cw_warnings, cw_error, dataloaders, criterion>>
    /\ UNCHANGED outsideLoaders

NextLoad ==
    \/ ComputeClassWeightsCall
    \/ CreateDataloadersCall
    \/ TrainerInit
    \/ StartIteration
    \/ NextBatch
    \/ EndIteration

SpecLoad == InitLoad /\ [][NextLoad]_vars

\* -------------------------------------------------------- SkinLesionDataset

\* rows of the CSV a dataset reads, at most MaxItems of them
MaxItems == 2

\* np.zeros((224, 224, 3)): the side of the fallback image
PlaceholderSide == 224

\* config.dataset.image_size values, the side A.Resize produces
ImageSizes == {PlaceholderSide, 384}

\* What the path of a row points to: no file, a file cv2.imread cannot
\* decode, or an image of some side length.
NoFile == [state |-> "missing", side |-> 0]
BadFile == [state |-> "corrupt", side |-> 0]
ImageFile(side) == [state |-> "image", side |-> side]
Files == {NoFile, BadFile, ImageFile(PlaceholderSide), ImageFile(600)}

Sources == {"ham10000", "isic2019"}

\* _get_image_path: the directory of the row's source
GetImagePath(row) ==
    IF row.source \in Sources
    THEN [dir |-> row.source, raised |-> None]
    ELSE [dir |-> None, raised |-> Some("ValueError: Unknown source")]

\* Mutant: the result of cv2.imread is not tested for None, so cvtColor
\* raises cv2.error on an undecodable file.
LoadImage_NoNoneCheck(file) ==
    IF file.state = "missing"
    THEN [image |-> None, raised |-> Some("FileNotFoundError")]
    ELSE IF file.state = "corrupt"
         THEN [image |-> None, raised |-> Some("cv2.error")]
         ELSE [image |-> Some([side |-> file.side, pixels |-> "rgb"]),
               raised |-> None]

\* _load_image
LoadImage(file) ==
    IF file.state = "missing"
    THEN [image |-> None, raised |-> Some("FileNotFoundError")]
    ELSE IF file.state = "corrupt"
         THEN [image |-> None, raised |-> Some("ValueError")]
         ELSE [image |-> Some([side |-> file.side, pixels |-> "rgb"]),
               raised |-> None]

\* except (FileNotFoundError, ValueError)
Caught == {"FileNotFoundError", "ValueError"}

\* self.transform(image=image)['image'], a pipeline that starts with
\* A.Resize(image_size, image_size); without a transform the array becomes a
\* tensor of its own size
ApplyTransform(tf, image) ==
    IF tf # None THEN [image EXCEPT !.side = tf[1]] ELSE image

\* __getitem__(idx): the item returned, what was logged, what was raised
GetItem(rows, tf, idx) ==
    LET row == rows[idx]
        path == GetImagePath(row)
        loaded == LoadImage(row.file)
    IN IF path.raised # None
       THEN [item |-> None, logged |-> <<>>, raised |-> path.raised]
       ELSE IF loaded.raised # None /\ loaded.raised[1] \notin Caught
       THEN [item |-> None, logged |-> <<>>, raised |-> loaded.raised]
       ELSE LET image == IF loaded.raised # None
                         THEN [side |-> PlaceholderSide, pixels |-> "black"]
                         ELSE loaded.image[1]
                logged == IF loaded.raised # None
                          THEN <<[error |-> loaded.raised[1], idx |-> idx]>>
                          ELSE <<>>
            IN [item |-> Some([image |-> ApplyTransform(tf, image),
                               label |-> ClassToIdx[row.dx]]),
                logged |-> logged, raised |-> None]

\* default_collate stacks the images, which must have one shape
CollateRaises(items) ==
    \E i, j \in 1..Len(items) : items[i].image.side # items[j].image.side

DataRows == [dx : ClassNames, source : Sources, file : Files]

\* A dataset as create_dataloaders_from_config builds it, with the transform
\* of its split, over a CSV of 1..MaxItems rows that one batch covers.
InitDataset ==
    /\ \E n \in 1..MaxItems : data \in [1..n -> DataRows]
    /\ \E size \in ImageSizes : transform = Some(size)
    /\ ds_pc = "fetching"
    /\ fetched = <<>>
    /\ ds_log = <<>>
    /\ ds_error = None
    /\ batch = None

InitItem ==
    /\ InitDataset
    /\ StopperIdle
    /\ MergerIdle
    /\ SplitterIdle
    /\ TrainerIdle
    /\ LoadersIdle
    /\ MetricsIdle
    /\ BatchLoopIdle

\* the DataLoader's fetch of the next index of the batch: dataset[idx]
GetItemCall ==
    /\ ds_pc = "fetching"
    /\ Len(fetched) < Len(data)
    /\ LET r == GetItem(data, transform, Len(fetched) + 1)
       IN IF r.raised # None
          THEN /\ ds_pc' = "raised"
               /\ ds_error' = r.raised
               /\ UNCHANGED <<fetched, ds_log>>
          ELSE /\ fetched' = Append(fetched, r.item[1])
               /\ ds_log' = ds_log \o r.logged
               /\ UNCHANGED <<ds_pc, ds_error>>
    /\ UNCHANGED <<data, transform, batch>>
    /\ UNCHANGED outsideDataset

\* every index of the batch is fetched: collate_fn builds the batch
Collate ==
    /\ ds_pc = "fetching"
    /\ Len(fetched) = Len(data)
    /\ IF CollateRaises(fetched)
       THEN /\ ds_pc' = "raised"
            /\ ds_error' = Some("RuntimeError: stack expects each tensor to be equal size")
            /\ UNCHANGED batch
       ELSE /\ ds_pc' = "delivered"
            /\ batch' = Some(fetched)
            /\ UNCHANGED ds_error
    /\ UNCHANGED <<data, transform, fetched, ds_log>>
    /\ UNCHANGED outsideDataset

NextItem ==
    \/ GetItemCall
    \/ Collate

SpecItem == InitItem /\ [][NextItem]_vars

\* -------------------------------------------------------- MetricsCalculator

\* Sensitivities and AUCs are integers in hundredths (85 stands for 0.85).

\* MELANOMA_IDX, the fallback when 'mel' is not among the class names
MELANOMA_IDX == 4

\* the literal of `if metrics['mel_sensitivity'] < 0.85`
SafetyThreshold == 85

\* class_names passed to MetricsCalculator: the first five of CLASS_NAMES,
\* five names without 'mel', three names without 'mel'
ClassNameLists ==
    {<<"akiec", "bcc", "bkl", "df", "mel">>,
     <<"akiec", "bcc", "bkl", "df", "nv">>,
     <<"bcc", "bkl", "nv">>}

\* sensitivity thresholds a configuration may ask for
ConfigThresholds == {SafetyThreshold, 90}

\* recalls and AUCs the evaluation can produce
SensValues == {0, 84, 85, 87, 90, 100}
AucValues == {50, 100}

NamesOf(names) == {names[i] : i \in 1..Len(names)}
IndexOf(names, name) == (CHOOSE i \in 1..Len(names) : names[i] = name) - 1

\* self.melanoma_idx of MetricsCalculator.__init__
MelanomaIdx(names) ==
    IF "mel" \in NamesOf(names) THEN IndexOf(names, "mel") ELSE MELANOMA_IDX

\* what one roc_auc_score call did
Returned(value) == [called |-> TRUE, raised |-> FALSE, value |-> value]
Raised == [called |-> TRUE, raised |-> TRUE, value |-> 0]
NotCalled == [called |-> FALSE, raised |-> FALSE, value |-> 0]

\* classification_report(all_labels, all_preds, target_names=class_names):
\* it raises unless the labels it finds are as many as the target names
ReportRaises(names, labels, preds) ==
    Cardinality(labels \cup preds) # Len(names)

\* report['mel']['recall'] with zero_division=0, or the default 0.0 when
\* the report has no 'mel' entry
MelSensitivityOutcomes(names, labels, preds) ==
    IF "mel" \notin NamesOf(names) THEN {0}
    ELSE IF IndexOf(names, "mel") \in labels \cap preds THEN SensValues
    ELSE {0}

\* roc_auc_score(all_labels, all_probs, multi_class='ovr', average='macro'):
\* it raises unless every column of all_probs has its class in all_labels
MacroAucOutcomes(names, labels) ==
    IF Len(names) > 2 /\ labels = 0..(Len(names) - 1)
    THEN {Returned(v) : v \in AucValues}
    ELSE {Raised}

\* roc_auc_score(mel_binary_labels, all_probs[:, self.melanoma_idx]): the
\* column must exist and both binary labels must occur
MelAucOutcomes(names, labels) ==
    LET idx == MelanomaIdx(names)
    IN IF idx >= Len(names) THEN {Raised}
       ELSE IF idx \in labels /\ labels # {idx}
       THEN {Returned(v) : v \in AucValues}
       ELSE {Raised}

\* the try block of compute and its except clause: the two AUC fields and
\* what the two calls did
TryAuc(names, labels) ==
    {IF macro.raised
     THEN [auc_roc_macro |-> 0, auc_roc_melanoma |-> 0,
           calls |-> [macro |-> macro, mel |-> NotCalled]]
     ELSE IF mel.raised
     THEN [auc_roc_macro |-> 0, auc_roc_melanoma |-> 0,
           calls |-> [macro |-> macro, mel |-> mel]]
     ELSE [auc_roc_macro |-> macro.value, auc_roc_melanoma |-> mel.value,
           calls |-> [macro |-> macro, mel |-> mel]] :
        macro \in MacroAucOutcomes(names, labels),
        mel \in MelAucOutcomes(names, labels)}

\* the metrics computed before the try block
OtherMetrics ==
    {"accuracy", "balanced_accuracy", "f1_macro", "f1_weighted",
     "mel_precision", "mel_f1"}

\* MetricsCalculator(class_names) exists, the validation pass has collected
\* all_preds, all_labels and all_probs; the classes are indices 0..C-1.
InitMetrics ==
    /\ class_names \in ClassNameLists
    /\ config_threshold \in ConfigThresholds
    /\ all_labels \in (SUBSET (0..(Len(class_names) - 1))) \ {{}}
    /\ all_preds \in (SUBSET (0..(Len(class_names) - 1))) \ {{}}
    /\ mc_pc = "ready"
    /\ snapshot = None
    /\ auc_calls = None
    /\ mc_error = None
    /\ mc_warnings = <<>>

InitMetric ==
    /\ InitMetrics
    /\ StopperIdle
    /\ MergerIdle
    /\ SplitterIdle
    /\ TrainerIdle
    /\ LoadersIdle
    /\ DatasetIdle
    /\ BatchLoopIdle

\* metrics = self.metrics_calc.compute(all_preds, all_labels, all_probs)
Compute ==
    /\ mc_pc = "ready"
    /\ IF ReportRaises(class_names, all_labels, all_preds)
       THEN /\ mc_pc' = "raised"
            /\ mc_error' = Some("ValueError: Number of classes does not match size of target_names")
            /\ UNCHANGED <<snapshot, auc_calls, mc_warnings>>
       ELSE \E mel_sensitivity \in MelSensitivityOutcomes(class_names,
                                                         all_labels, all_preds),
               auc \in TryAuc(class_names, all_labels) :
                /\ snapshot' = Some([others |-> OtherMetrics,
                                     mel_sensitivity |-> mel_sensitivity,
                                     auc_roc_macro |-> auc.auc_roc_macro,
                                     auc_roc_melanoma |-> auc.auc_roc_melanoma])
                /\ auc_calls' = Some(auc.calls)
                /\ mc_warnings' = IF mel_sensitivity < SafetyThreshold
                                  THEN <<"SAFETY ALERT">>
                                  ELSE <<>>
                /\ mc_pc' = "returned"
                /\ UNCHANGED mc_error
    /\ UNCHANGED <<class_names, config_threshold, all_labels, all_preds>>
    /\ UNCHANGED outsideMetrics

NextMetric == Compute

SpecMetric == InitMetric /\ [][NextMetric]_vars

\* ================================================================== claims

\* -------------------------------------------- StratifiedDataSplitter claims

RegistryRows == 1..Len(metadata_csv[1])

\* C1: whenever split_data returns, the row counts of train, val and test sum
\* to the registry's row count, the three partitions are pairwise disjoint
\* and their union is the whole registry.
C1_PartitionsCoverRegistryDisjointly ==
    sp_pc = "done"
    => /\ Cardinality(train_df[1]) + Cardinality(val_df[1])
              + Cardinality(test_df[1]) = Len(metadata_csv[1])
       /\ train_df[1] \cap val_df[1] = {}
       /\ train_df[1] \cap test_df[1] = {}
       /\ val_df[1] \cap test_df[1] = {}
       /\ train_df[1] \cup val_df[1] \cup test_df[1] = RegistryRows

\* a registry with both classes split into three non-empty partitions
C1_Witness ==
    /\ sp_pc = "done"
    /\ {metadata_csv[1][r] : r \in RegistryRows} = SplitClasses
    /\ train_df[1] # {} /\ val_df[1] # {} /\ test_df[1] # {}

SmallClasses ==
    {c \in SplitClasses :
        Cardinality({r \in RegistryRows : metadata_csv[1][r] = c}) = 1}

\* C10: for a registry with a class of fewer than 2 samples (and positive
\* ratios) split_data does not fail: it returns the three partitions, with
\* every sample of that class in train, and emits a warning.
C10_SmallClassAssignedToTrain ==
    (/\ sp_pc \in {"done", "failed"}
     /\ output_dir
     /\ \A i \in 1..3 : ratios[i] > 0
     /\ SmallClasses # {})
    => /\ sp_pc = "done"
       /\ \A r \in RegistryRows :
              metadata_csv[1][r] \in SmallClasses => r \in train_df[1]
       /\ sp_warnings # <<>>

\* how many outcomes split_data has on this registry with these ratios
OutcomeCount ==
    Cardinality(SplitDataOutcomes(metadata_csv[1], ratios[2], ratios[3],
                                  None, {}))

\* C11: two runs of split_data with the same random_state, the same ratios
\* and the same input registry assign every sample to the same partition
\* (and fail alike when they fail).
C11_SameSeedSameAssignment ==
    (rerun # None /\ rerun[1].random_state = random_state)
    => /\ rerun[1].error = sp_error
       /\ sp_pc = "done"
           => /\ rerun[1].train_df = train_df[1]
              /\ rerun[1].val_df = val_df[1]
              /\ rerun[1].test_df = test_df[1]

\* a second run with the same seed on a registry the shuffle can split in
\* more than one way
C11_Witness ==
    /\ rerun # None /\ rerun[1].random_state = random_state
    /\ sp_pc = "done"
    /\ OutcomeCount > 1
    /\ val_df[1] # {} /\ test_df[1] # {}

\* the ratios are non-negative and sum to 1.0 within 1e-6 (one millionth)
RatiosValid ==
    /\ \A i \in 1..3 : ratios[i] >= 0
    /\ ratios[1] + ratios[2] + ratios[3] - One \in {-1, 0, 1}

\* C12: constructing StratifiedDataSplitter fails, before the output
\* directory is created, whenever a ratio is negative or the sum of the
\* ratios differs from 1.0 by more than 1e-6; it succeeds only for
\* non-negative ratios that sum to 1.0 within that tolerance.
C12_InvalidRatiosRejectedBeforeMkdir ==
    (sp_pc # "new" /\ ~RatiosValid)
    => /\ sp_pc = "failed"
       /\ sp_error # None
       /\ ~output_dir

\* C24: the second stage gives val the fraction val_ratio/(val_ratio +
\* test_ratio) of the holdout set and test the remainder, for every accepted
\* ratio triple (to within one row, the rounding of a row count).
C24_HoldoutDividedByRatio ==
    sp_pc = "done"
    => LET val == Cardinality(val_df[1])
           holdout == val + Cardinality(test_df[1])
           both == ratios[2] + ratios[3]
       IN /\ val * both - ratios[2] * holdout < both
          /\ ratios[2] * holdout - val * both < both

\* C30: for every registry in which every class has at least 2 samples (and
\* positive ratios) split_data completes both stages without raising and
\* returns three partitions, also when the holdout set that stage 1 has
\* returned holds a single sample of a class.
C30_SplitCompletesForClassesOfTwo ==
    (/\ sp_pc \in {"done", "failed"}
     /\ output_dir
     /\ rng_draws # {}
     /\ \A i \in 1..3 : ratios[i] > 0
     /\ RegistryRows # {}
     /\ \A r \in RegistryRows :
            Cardinality({q \in RegistryRows :
                            metadata_csv[1][q] = metadata_csv[1][r]}) >= 2)
    => /\ sp_pc = "done"
       /\ sp_error = None
       /\ train_df # None /\ val_df # None /\ test_df # None

\* ------------------------------------------------------- DataMerger claims

IdsOf(q) == {q[i].image_id : i \in 1..Len(q)}

NoIndicatorSet(row) == \A c \in 1..Len(LabelColumns) : row.labels[c] = 0

\* C2: an ISIC row in which none of the eight indicator columns is set is
\* rejected: it receives no dx label and never reaches the merged registry.
C2_UnlabelledRowsNeverMerged ==
    mg_pc = "done"
    => \A i \in 1..Len(isic_csv[1].rows) :
           NoIndicatorSet(isic_csv[1].rows[i])
           => \A k \in 1..Len(master_csv[1]) :
                  ~(/\ master_csv[1][k].source = "isic2019"
                    /\ master_csv[1][k].image_id =
                           isic_csv[1].rows[i].image_id)

\* C3: the merged registry has no duplicate image_id; every HAM10000 row is
\* retained, and an id present in both sources appears exactly once, with
\* the HAM10000 row's label and source tag.
C3_MergedIdsUniqueFirstSourceWins ==
    mg_pc = "done"
    => LET ham == ham_csv[1]
           master == mg_result[1].master_df
       IN /\ master_csv = Some(master)
          /\ HasDistinctIds(master)
          /\ Len(master) >= Len(ham)
          /\ \A i \in 1..Len(ham) :
                 master[i] = [image_id |-> ham[i].image_id, dx |-> ham[i].dx,
                              source |-> "ham10000"]
          /\ \A id \in IdsOf(ham) \cap IdsOf(isic_csv[1].rows) :
                 \A k \in 1..Len(master) :
                     master[k].image_id = id
                     => master[k].source = "ham10000"

\* an id in both sources whose ISIC label differs from its HAM10000 label
C3_Witness ==
    /\ mg_pc = "done"
    /\ \E i \in 1..Len(ham_csv[1]), j \in 1..Len(isic_csv[1].rows) :
           /\ ham_csv[1][i].image_id = isic_csv[1].rows[j].image_id
           /\ ham_csv[1][i].dx = "nv"
           /\ HarmonizeRow(isic_csv[1].rows[j]).dx = "akiec"
           /\ Len(master_csv[1]) = Len(ham_csv[1]) + Len(isic_csv[1].rows) - 1

\* the ISIC rows that remove_duplicates dropped
DroppedRows ==
    {j \in 1..Len(isic_csv[1].rows) :
        isic_csv[1].rows[j].image_id \in IdsOf(ham_csv[1])}

\* C17: the Stats returned by merge_datasets hold the total count, the
\* per-source counts, the per-class counts after the merge and a
\* duplicates-removed count equal to the number of second-source rows
\* dropped by remove_duplicates; the total equals the sum of the per-source
\* counts.
C17_StatsHoldDuplicatesRemoved ==
    mg_pc = "done"
    => LET stats == mg_result[1].stats
       IN /\ {"total_images", "ham10000_count", "isic2019_count",
               "class_distribution"} \subseteq DOMAIN stats
          /\ stats.total_images = stats.ham10000_count + stats.isic2019_count
          /\ "duplicates_removed" \in DOMAIN stats
          /\ stats.duplicates_removed = Cardinality(DroppedRows)

\* C18: when the HAM10000 or the ISIC 2019 metadata file is absent,
\* merge_datasets fails with a FileNotFoundError naming the missing file,
\* master_metadata.csv is neither written nor changed, no registry is
\* returned, and nothing runs afterwards.
C18_MissingSourceAborts ==
    [][(ham_csv = None \/ isic_csv = None)
       => /\ mg_pc' = "failed"
          /\ mg_error' = IF ham_csv = None THEN Some(HamNotFound)
                         ELSE Some(IsicNotFound)
          /\ master_csv' = master_csv
          /\ mg_result' = None]_vars

\* the ISIC file is missing and an earlier master file is still in place
C18_Witness ==
    /\ mg_pc = "failed"
    /\ ham_csv # None /\ isic_csv = None
    /\ mg_error = Some(IsicNotFound)
    /\ master_csv = Some(OldMaster)

\* ---------------------------------------------------- EarlyStopping claims

IsConstantSeq(q) == \A i, j \in 1..Len(q) : q[i] = q[j]

\* C4: with mode=max, min_delta=0 and patience p >= 1, on a constant value
\* sequence __call__ returns False on calls 1..p and True for the first time
\* exactly on call p+1 (the first value is the baseline, not a miss).
C4_ConstantSequenceStopsAtPatiencePlusOne ==
    (/\ stopper.mode = "max"
     /\ stopper.min_delta = 0
     /\ stopper.patience >= 1
     /\ IsConstantSeq(es_values))
    => \A i \in 1..Len(es_returns) :
           i <= stopper.patience + 1
           => (es_returns[i] <=> (i = stopper.patience + 1))

\* patience 3 and four equal values: stopped exactly after the 4th call
C4_Witness ==
    /\ stopper.mode = "max" /\ stopper.min_delta = 0 /\ stopper.patience = 3
    /\ es_values = <<1, 1, 1, 1>>
    /\ es_returns = <<FALSE, FALSE, FALSE, TRUE>>

\* C5: once should_stop is True it is True after every later call, with any
\* value, and every later call returns True.
C5_StoppedIsSticky ==
    [][stopper.should_stop
       => /\ stopper'.should_stop
          /\ es_returns'[Len(es_returns')] = TRUE]_vars

\* a call with a value that improves on best_value was made after the stop
C5_Witness ==
    /\ Len(es_returns) >= 3
    /\ stopper.mode = "max"
    /\ es_returns[Len(es_returns) - 1] = TRUE
    /\ es_returns[Len(es_returns)] = TRUE
    /\ \A i \in 1..(Len(es_values) - 1) :
           es_values[Len(es_values)] > es_values[i] + stopper.min_delta

\* C22: every call after the first applies the rule: improvement iff
\* (mode=max and value > best_value + min_delta) or (mode=min and
\* value < best_value - min_delta); on improvement best_value becomes value
\* and counter 0; otherwise best_value is unchanged, counter grows by 1 and
\* should_stop is set to True iff the new counter >= patience (a call that
\* does not set it leaves it as it was).
C22_CallAppliesImprovementRule ==
    [][stopper.best_value # None
       => LET value == es_values'[Len(es_values')]
              best == stopper.best_value[1]
              improvement ==
                  \/ stopper.mode = "max" /\ value > best + stopper.min_delta
                  \/ stopper.mode = "min" /\ value < best - stopper.min_delta
          IN IF improvement
             THEN /\ stopper'.best_value = Some(value)
                  /\ stopper'.counter = 0
             ELSE /\ stopper'.best_value = stopper.best_value
                  /\ stopper'.counter = stopper.counter + 1
                  /\ IF stopper'.counter >= stopper.patience
                     THEN stopper'.should_stop
                     ELSE stopper'.should_stop = stopper.should_stop]_vars

\* mode=min with min_delta > 0: an improvement, then a value exactly
\* min_delta below the best, which is not one and reaches the patience
C22_Witness ==
    /\ Len(es_values) = 3
    /\ stopper.mode = "min" /\ stopper.min_delta = 1 /\ stopper.patience = 1
    /\ es_values[2] < es_values[1] - 1
    /\ es_values[3] = es_values[2] - 1
    /\ stopper.best_value = Some(es_values[2])
    /\ stopper.counter = 1
    /\ stopper.should_stop

\* ------------------------------------------------------------ Trainer claims

Vals == history.val_balanced_acc

\* the learning-rate level in force when epoch k (1-based) was checkpointed
LrAtSave(k) == IF k < Len(history.lr) THEN history.lr[k + 1] ELSE lr_level

\* the record _save_checkpoint wrote in epoch k (1-based)
RecordOfEpoch(k) == CheckpointRecord(k - 1, k, LrAtSave(k), Vals[k])

\* C6 as stated: the flag of epoch k is True iff epoch k's balanced accuracy
\* is strictly greater than that of every earlier epoch (so the first epoch
\* is always flagged).
C6_FlagIffGreaterThanEveryEarlier ==
    \A k \in 1..Len(is_best_log) :
        is_best_log[k] <=> (\A j \in 1..(k - 1) : Vals[k] > Vals[j])

\* C6 amended: the flag of epoch k is True iff epoch k's balanced accuracy is
\* strictly greater than 0.0, the initial best_val_balanced_acc, and than
\* that of every earlier epoch.
C6_FlagIffGreaterThanInitialAndEarlier ==
    \A k \in 1..Len(is_best_log) :
        is_best_log[k] <=> (/\ Vals[k] > InitialBest
                            /\ \A j \in 1..(k - 1) : Vals[k] > Vals[j])

\* the shape of [0.60, 0.65, 0.65, 0.70]: flags [True, True, False, True]
C6_Witness ==
    /\ Len(is_best_log) = 4
    /\ Vals = <<1, 2, 2, 3>>
    /\ is_best_log = <<TRUE, TRUE, FALSE, TRUE>>

LastFlagged ==
    IF \E k \in 1..Len(is_best_log) : is_best_log[k]
    THEN CHOOSE k \in 1..Len(is_best_log) :
             is_best_log[k] /\ \A j \in (k + 1)..Len(is_best_log) : ~is_best_log[j]
    ELSE 0

StoppedAt ==
    IF \E i \in 1..Len(stop_log) : stop_log[i]
    THEN CHOOSE i \in 1..Len(stop_log) :
             stop_log[i] /\ \A j \in 1..(i - 1) : ~stop_log[j]
    ELSE num_epochs

MinOf(a, b) == IF a <= b THEN a ELSE b

\* C8: train() terminates, and having executed min(num_epochs, s) epochs,
\* s the first epoch at which EarlyStopping reported stopped.
C8_TerminatesAfterMinEpochs ==
    <>[](/\ pc = "terminated"
         /\ model_state = MinOf(num_epochs, StoppedAt)
         /\ Len(stop_log) = model_state)

\* train() ended by early stopping before the configured number of epochs
C8_Witness ==
    /\ pc = "terminated"
    /\ Len(stop_log) >= 2
    /\ stop_log[Len(stop_log)] = TRUE
    /\ Len(stop_log) < num_epochs

\* C9: a run restored from the checkpoint record of epoch e and continued
\* from epoch e+1 makes the same is_best decisions, the same learning-rate
\* reductions and the same early-stopping decisions as the uninterrupted run
\* on the same metric sequence.
C9_ResumedRunDecidesAlike ==
    resumed # None
    => LET r == resumed[1]
       IN \A i \in 1..Len(r.stop_log) :
              /\ r.is_best_log[i] = is_best_log[r.from + i]
              /\ r.lr_log[i] = LrAtSave(r.from + i)
              /\ r.stop_log[i] = stop_log[r.from + i]

\* C23: in every epoch the phases occur in the order train, validate,
\* scheduler step, checkpoint, stop check: when the checkpoint of an epoch is
\* saved the scheduler has been stepped with that epoch's balanced accuracy
\* (the record holds the learning rate after the step), and EarlyStopping is
\* consulted only after the save, so the epoch on which early stopping fires
\* has its checkpoint written.
C23_PhasesInOrder ==
    /\ Len(stop_log) <= Len(is_best_log)
    /\ Len(is_best_log) <= Len(Vals)
    /\ Len(Vals) <= model_state
    /\ model_state <= Len(stop_log) + 1
    /\ Len(is_best_log) >= 1
       => /\ latest_ckpt # None
          /\ latest_ckpt[1].epoch = Len(is_best_log) - 1
          /\ latest_ckpt[1].val_balanced_acc = Vals[Len(is_best_log)]
          /\ latest_ckpt[1].optimizer_state_dict = LrAtSave(Len(is_best_log))
    /\ \A k \in 1..Len(stop_log) :
           stop_log[k] => /\ pc = "terminated"
                          /\ latest_ckpt[1].epoch = k - 1
                          /\ latest_ckpt[1].val_balanced_acc = Vals[k]

\* early stopping fired in an epoch whose scheduler step reduced the
\* learning rate: the checkpoint of that epoch is on disk with the reduced
\* rate
C23_Witness ==
    /\ pc = "terminated"
    /\ Len(stop_log) >= 2
    /\ stop_log[Len(stop_log)]
    /\ latest_ckpt[1].epoch = Len(stop_log) - 1
    /\ latest_ckpt[1].optimizer_state_dict > history.lr[Len(stop_log)]

\* the steps of one batch, in the order of the claim
BatchSteps ==
    <<"zero_grad", "forward_loss", "backward", "unscale", "clip", "step">>

\* C25: for every training batch the steps occur in the order reset
\* gradients, forward and loss, backward, unscaling, clipping, optimizer
\* step; the gradients the optimizer steps on are unscaled and clipped, and
\* they are the gradients of that batch alone.
C25_BatchStepsInOrder ==
    /\ \A i \in 1..Len(bt_log) :
           /\ bt_log[i].batch = ((i - 1) \div Len(BatchSteps)) + 1
           /\ bt_log[i].step = BatchSteps[((i - 1) % Len(BatchSteps)) + 1]
    /\ \A i \in 1..Len(optimizer_steps) :
           /\ optimizer_steps[i].grads.of = {optimizer_steps[i].batch}
           /\ optimizer_steps[i].grads.clipped
           /\ ~optimizer_steps[i].grads.scaled
    /\ bt_pc = "step" => grads[1].clipped /\ ~grads[1].scaled

\* mixed precision, an epoch of three batches: the step of the second was
\* skipped for an inf gradient, the third stepped on its own gradients
C25_Witness ==
    /\ bt_pc = "returned"
    /\ use_amp
    /\ n_batches = 3
    /\ Len(bt_log) = 3 * Len(BatchSteps)
    /\ Len(optimizer_steps) = 2
    /\ optimizer_steps[2].batch = 3

\* C26: if the process crashes at any point of train(), _save_checkpoint
\* included, a latest checkpoint found afterwards is the complete record of
\* an epoch whose train and validate phases finished; and no checkpoint file
\* is being written while an epoch trains or validates.
C26_LatestCheckpointSurvivesCrash ==
    /\ (pc = "crashed" /\ latest_ckpt # None)
       => /\ IsComplete(latest_ckpt[1])
          /\ latest_ckpt[1].epoch < Len(Vals)
          /\ latest_ckpt[1].model_state_dict = latest_ckpt[1].epoch + 1
    /\ pc \in {"epoch_start", "validate_phase", "schedule_update"}
       => /\ latest_ckpt # None => IsComplete(latest_ckpt[1])
          /\ best_ckpt # None => IsComplete(best_ckpt[1])

\* C27: _validate changes no training state: the model parameters, the
\* optimizer state and learning rate, the EarlyStopping state,
\* best_val_balanced_acc and both checkpoint records are after it what they
\* were before; it produces the metrics of the epoch.
C27_ValidateChangesNoTrainingState ==
    [][pc = "validate_phase"
       => /\ UNCHANGED <<model_state, lr_level, early_stopping,
                         best_val_balanced_acc, latest_ckpt, best_ckpt>>
          /\ metrics' # None]_vars

\* the validation of a later epoch has returned: checkpoints exist and
\* EarlyStopping has counted a miss
C27_Witness ==
    /\ pc = "schedule_update"
    /\ metrics # None
    /\ Len(is_best_log) >= 2
    /\ latest_ckpt # None /\ best_ckpt # None
    /\ early_stopping.counter >= 1
    /\ lr_level >= 1

\* the patience and min_delta of the Trainer's EarlyStopping
Patience == early_stopping.patience
MinDelta == early_stopping.min_delta

\* the best balanced accuracy of epochs 1..k
RECURSIVE BestUpTo(_)
BestUpTo(k) ==
    IF k = 1 THEN Vals[1]
    ELSE IF Vals[k] > BestUpTo(k - 1) THEN Vals[k] ELSE BestUpTo(k - 1)

\* C28 as stated: when early stopping fires at epoch e, none of the last
\* `patience` epochs e-patience+1 .. e was flagged is_best.
C28_NoBestAmongLastPatienceEpochs ==
    \A e \in 1..Len(stop_log) :
        stop_log[e]
        => \A k \in (e - Patience + 1)..e : k >= 1 => ~is_best_log[k]

\* C28 amended: when early stopping fires at epoch e, the last `patience`
\* epochs all come after the first, and in each of them the balanced
\* accuracy exceeded the best of the earlier epochs by at most min_delta.
C28_NoGainBeyondMinDelta ==
    \A e \in 1..Len(stop_log) :
        stop_log[e]
        => \A k \in (e - Patience + 1)..e :
               /\ k >= 2
               /\ Vals[k] <= BestUpTo(k - 1) + MinDelta

\* early stopping fired on an epoch that was flagged is_best
C28_Witness ==
    /\ pc = "terminated"
    /\ Len(stop_log) >= 2
    /\ stop_log[Len(stop_log)]
    /\ is_best_log[Len(stop_log)]
    /\ best_ckpt[1].epoch = Len(stop_log) - 1

\* C29: in every epoch after the first, if EarlyStopping counts the value as
\* an improvement (counter reset to 0, best_value replaced by the value),
\* the Trainer has flagged the epoch is_best and the best checkpoint is the
\* record of that epoch.
C29_EarlyStoppingImprovementIsNewBest ==
    [][(/\ pc = "stop_check"
        /\ early_stopping.best_value # None
        /\ early_stopping'.best_value # early_stopping.best_value)
       => /\ early_stopping'.counter = 0
          /\ early_stopping'.best_value = Some(metrics[1])
          /\ is_best_log[Len(is_best_log)]
          /\ best_ckpt = Some(RecordOfEpoch(Len(is_best_log)))
          /\ best_ckpt = latest_ckpt]_vars

\* the shape of [0.6000, 0.6005, 0.6010, 0.6015]: EarlyStopping's best_value
\* stays behind the Trainer's best for two epochs, then both move
C29_Witness ==
    /\ Vals = <<0, 1, 2, 3>>
    /\ Len(stop_log) = 4
    /\ stop_log = <<FALSE, FALSE, FALSE, FALSE>>
    /\ is_best_log = <<FALSE, TRUE, TRUE, TRUE>>
    /\ early_stopping.counter = 0
    /\ early_stopping.best_value = Some(3)

\* ------------------------------------- class-weight and DataLoader claims

\* the criterion weighs the classes differently
ClassWeighted(loss) ==
    \E a, b \in DOMAIN loss.weight : ~SameNumber(loss.weight[a], loss.weight[b])

\* C13: per-sample resampling weights and class-weighted loss are never
\* combined in one training run: when the training loader has a
\* WeightedRandomSampler the Trainer's criterion is not class-weighted, and
\* when the criterion is class-weighted no sampler is used.
C13_SamplerAndWeightedLossExclusive ==
    criterion # None
    => ~(/\ dataloaders[1].train.sampler # None
         /\ ClassWeighted(criterion[1]))

\* the iteration of the loader has yielded everything it yields in an epoch
Exhausted ==
    /\ loader_iter # None
    /\ loader_iter[1].position
           = EpochLength(dataloaders[1][loader_iter[1].split])

\* C14 as stated: in every epoch the validation loader and the training
\* loader yield each of their samples exactly once, whatever the number of
\* workers and whether or not weighted_sampling is enabled.
C14_EachSampleOncePerEpoch ==
    Exhausted
    => \A i \in DOMAIN loader_iter[1].yielded : loader_iter[1].yielded[i] = 1

\* C14 amended: in every epoch the validation loader yields each validation
\* sample exactly once, and so does the training loader when
\* weighted_sampling is disabled, whatever the number of workers; with
\* weighted_sampling enabled the training loader yields as many draws as
\* there are training samples, taken with replacement.
C14_EachSampleOnceUnlessResampled ==
    Exhausted
    => LET it == loader_iter[1]
           loader == dataloaders[1][it.split]
       IN /\ it.position = loader.dataset_len
          /\ loader.sampler = None
                 => \A i \in DOMAIN it.yielded : it.yielded[i] = 1
          /\ it.split = "val" => loader.sampler = None

\* a shuffled training epoch of three samples, in two batches fetched by
\* two workers
C14_Witness ==
    /\ Exhausted
    /\ loader_iter[1].split = "train"
    /\ dataloaders[1].train.sampler = None
    /\ dataloaders[1].train.shuffle
    /\ dataloaders[1].train.num_workers = 2
    /\ Len(train_csv) = 3
    /\ Len(loader_iter[1].batches) = 2
    /\ loader_iter[1].batches[2].worker = 2

KnownMethod == cw_method[1] \in {"inverse_frequency", "effective_number"}

\* C15: compute_class_weights does not raise and does not divide by zero
\* for a class of class_to_idx without rows in the training CSV: it logs a
\* warning for that class and sets its weight to 1.0, and the returned
\* vector has exactly one entry per class of class_to_idx.
C15_ZeroCountClassGetsWeightOne ==
    cw_method # None
    => /\ cw_error # Some("ZeroDivisionError")
       /\ KnownMethod => cw_error = None /\ class_weights # None
       /\ \A c \in ClassNames :
              (CountOf(train_csv, c) = 0 /\ KnownMethod)
              => \E k \in 1..Len(cw_warnings) : cw_warnings[k] = c
       /\ class_weights # None
          => /\ DOMAIN class_weights[1] = {ClassToIdx[c] : c \in ClassNames}
             /\ \A c \in ClassNames :
                    CountOf(train_csv, c) = 0
                    => class_weights[1][ClassToIdx[c]] = Quotient(1, 1)

\* weights were returned for a training CSV in which a class has no rows
C15_Witness ==
    /\ class_weights # None
    /\ cw_method = Some("inverse_frequency")
    /\ CountOf(train_csv, "mel") = 0
    /\ CountOf(train_csv, "nv") = 2
    /\ Len(cw_warnings) >= 1

\* every class has total / num_classes rows
Balanced ==
    \A c \in ClassNames :
        CountOf(train_csv, c) * Len(ClassOrder) = Len(train_csv)

\* C16: with method inverse_frequency the weight of every class with
\* count > 0 is total_train_samples / (num_classes * count); on a perfectly
\* balanced training registry every weight is exactly 1.0.
C16_InverseFrequencyFormula ==
    (cw_method = Some("inverse_frequency") /\ class_weights # None)
    => /\ \A c \in ClassNames :
              CountOf(train_csv, c) > 0
              => /\ class_weights[1][ClassToIdx[c]].den # 0
                 /\ class_weights[1][ClassToIdx[c]].num
                        * (Len(ClassOrder) * CountOf(train_csv, c))
                    = Len(train_csv) * class_weights[1][ClassToIdx[c]].den
       /\ Balanced
          => \A c \in ClassNames :
                 class_weights[1][ClassToIdx[c]].num
                     = class_weights[1][ClassToIdx[c]].den

\* inverse-frequency weights were computed for a balanced registry
C16_Witness ==
    /\ cw_method = Some("inverse_frequency")
    /\ class_weights # None
    /\ Balanced

\* ------------------------------------------------ SkinLesionDataset claims

Unloadable(row) == row.file.state \in {"missing", "corrupt"}

C19_FailedAucIsZeroOthersKept ==
    auc_calls # None
    => /\ mc_pc = "returned"
       /\ OtherMetrics \subseteq snapshot[1].others
       /\ auc_calls[1].macro.raised => snapshot[1].auc_roc_macro = 0
       /\ auc_calls[1].mel.raised => snapshot[1].auc_roc_melanoma = 0
       /\ (auc_calls[1].macro.called /\ ~auc_calls[1].macro.raised)
          => snapshot[1].auc_roc_macro = auc_calls[1].macro.value
       /\ (auc_calls[1].mel.called /\ ~auc_calls[1].mel.raised)
          => snapshot[1].auc_roc_melanoma = auc_calls[1].mel.value

\* C20: in every evaluation pass whose melanoma sensitivity is below the
\* configured threshold a safety warning is emitted, none is emitted when
\* the sensitivity is at or above it, and compute still returns the
\* snapshot (the warning is not fatal).
C20_WarningIffBelowConfiguredThreshold ==
    snapshot # None
    => /\ mc_pc = "returned"
       /\ mc_warnings # <<>>
              <=> snapshot[1].mel_sensitivity < config_threshold

====
